---- MODULE Spec2Model ----
(***************************************************************************)
(* A model of the IDEX connector's order lifecycle manager:                *)
(*   hummingbot/connector/exchange/idex/idex_exchange.py                   *)
(*   hummingbot/connector/exchange/idex/idex_in_flight_order.py            *)
(* The state is the connector's order store (_in_flight_orders), the       *)
(* exclusive order lock with the operation that holds it, and the events   *)
(* the connector has triggered.  Every action is one run of a handler      *)
(* between two suspension points of the asyncio event loop.                *)
(***************************************************************************)
EXTENDS Integers, Sequences, FiniteSets, TLC

\* ---------------------------------------------------------------- bounds
MaxOrders == 1      \* client order ids handed out by buy()/sell() in a session
MaxBatch == 2       \* orders tracked when a batch operation (cancel_all, poll) starts
MaxFills == 2       \* distinct fill ids the venue reports
MaxMsgFills == 2    \* fill entries carried by one venue message
MaxRestarts == 1    \* process restarts (restore_tracking_states)
MaxDeliveries == 3  \* venue reports read: push 'orders' events and status polls
MaxWholeAmount == 5 \* requested quantities 1.0 .. MaxWholeAmount.0 of restored orders
MaxCallers == 11         \* callers that enter execute_task
TicksPerSecond == 2      \* instants of the clock per second
MaxWaiters == 2          \* operations waiting for _order_lock
MaxCalls == 3       \* requests an IdexAuth prepares

\* ------------------------------------------------------------- constants
RelTolDen == 100000000      \* NORMALIZED_PRECISION = 1e-08 = 1 / RelTolDen
QuantityDecimals == 8       \* quantities are multiples of 10^-8 (quantity_step, '.8f')

Ids == 1 .. (IF MaxOrders >= MaxBatch THEN MaxOrders ELSE MaxBatch)
FillIds == 1 .. MaxFills
NoId == 0                   \* Python None where an id is expected
\* the orders the strategy places: side and quantized amount; quantities are
\* counted in units of 10^-QuantityDecimals
OrderInputs == {[trade_type |-> "BUY", amount |-> 3], [trade_type |-> "SELL", amount |-> 2]}

\* the venue assigns every accepted order its own exchange order id
ExchangeId(c) == 100 + c

\* the fills the venue reports: price, quantity and fee of fill id f
FillPrice(f) == f + 1
FillQuantity(f) == f
FillFee(f) == 1

Statuses == {"open", "partiallyFilled", "filled", "canceled", "rejected"}

\* ----------------------------------------------------------------- state
VARIABLES
    in_flight_orders,   \* client order id -> order record (the Order Store)
    cancelled_event,    \* client order id -> is the order object's cancelled_event set
    events,             \* client order id -> how often each MarketEvent was triggered
    order_lock,         \* the operation holding _order_lock, or Unlocked
    next_order_id,      \* client order ids handed out so far
    returned,           \* what the latest step handed back to its caller
    delivered,          \* client order id -> fill id -> deliveries seen while tracked (0, 1, 2+)
    deliveries,         \* venue reports read so far (push 'orders' events, status polls)
    restarts,           \* process restarts so far
    loops,              \* where _status_polling_loop and _user_stream_event_listener stand
    auth,               \* the IdexAuth object, the module-level state it reads (uuid's
                        \* clock, idex_resolve's domain selection) and the requests it
                        \* has prepared for the HTTP session
    throttler,          \* limit id -> the callers waiting in execute_task and the calls
                        \* started within the last time_interval, by age
    waiters             \* the operations waiting for _order_lock, first come first

vars == <<in_flight_orders, cancelled_event, events, order_lock,
         next_order_id, returned, delivered, deliveries, restarts, loops, auth,
         throttler, waiters>>

Unlocked == [kind |-> "none"]
NoResult == [op |-> "none"]
\* start_network has started both loops: the poll loop waits for its notifier, the
\* listener waits for the next event of the user stream
Started == [poll |-> "waiting", listener |-> "getting"]

\* ----------------------------------------------------------- arithmetic
Abs(x) == IF x < 0 THEN -x ELSE x
Max(a, b) == IF a >= b THEN a ELSE b

\* the sum of fn[x] over the x in S
RECURSIVE SumOver(_, _)
SumOver(fn, S) ==
    IF S = {} THEN 0
    ELSE LET x == CHOOSE y \in S : TRUE IN fn[x] + SumOver(fn, S \ {x})

\* ------------------------------------------------- binary64 arithmetic
\* math.isclose converts its Decimal arguments to C doubles and compares them in
\* binary64 arithmetic.  A double is modelled by its value m * 2^e: m is the
\* mantissa, an integer of MantissaBits bits (0 for zero) written as MantissaLimbs
\* digits of base 2^LimbBits, most significant first; every operation rounds its
\* exact result to the nearest double, ties to the even mantissa.
MantissaBits == 53
LimbBits == 12
PowersOfTwo == <<1, 2, 4, 8, 16, 32, 64, 128, 256, 512, 1024, 2048, 4096>>
Pow2(k) == PowersOfTwo[k + 1]
LimbBase == Pow2(LimbBits)
MantissaLimbs == (MantissaBits + LimbBits - 1) \div LimbBits

Zeros(n) == [i \in 1 .. n |-> 0]
IsZeroLimbs(x) == \A i \in 1 .. Len(x) : x[i] = 0

\* x without its leading zero digits
StripZeros(x) ==
    LET nonzero == {i \in 1 .. Len(x) : x[i] # 0}
    IN IF nonzero = {} THEN << >>
       ELSE SubSeq(x, CHOOSE i \in nonzero : \A j \in nonzero : i <= j, Len(x))

\* x with leading zero digits up to n digits
PadTo(x, n) == Zeros(n - Len(x)) \o x

\* the digits of the number written by the columns c (integers of any sign whose
\* weighted sum is not negative), one digit more than columns
RECURSIVE Carry(_)
Carry(c) ==
    IF c = << >> THEN <<0>>
    ELSE LET rest == Carry(Tail(c))
             v == c[1] + rest[1]
         IN <<v \div LimbBase, v % LimbBase>> \o Tail(rest)

\* the number of bits of the number x (no leading zero digit)
BitLength(x) ==
    IF x = << >> THEN 0
    ELSE LimbBits * (Len(x) - 1) + Cardinality({k \in 0 .. LimbBits - 1 : Pow2(k) <= x[1]})

\* bit i of x, bit 0 being the least significant
BitOf(x, i) == (x[Len(x) - i \div LimbBits] \div Pow2(i % LimbBits)) % 2

\* is one of the k least significant bits of x set
LowBitsSet(x, k) ==
    \/ \E i \in Len(x) - k \div LimbBits + 1 .. Len(x) : x[i] # 0
    \/ x[Len(x) - k \div LimbBits] % Pow2(k % LimbBits) # 0

\* x * 2^k and x \div 2^k
ShiftLeft(x, k) ==
    LET y == <<0>> \o x
        t == k % LimbBits
    IN [i \in 1 .. Len(y) |->
            ((y[i] * Pow2(t)) % LimbBase)
              + (IF i < Len(y) THEN y[i + 1] \div Pow2(LimbBits - t) ELSE 0)]
       \o Zeros(k \div LimbBits)

ShiftRight(x, k) ==
    LET y == SubSeq(x, 1, Len(x) - k \div LimbBits)
        t == k % LimbBits
    IN [i \in 1 .. Len(y) |->
            (y[i] \div Pow2(t))
              + (IF i > 1 THEN (y[i - 1] % Pow2(t)) * Pow2(LimbBits - t) ELSE 0)]

\* the double nearest to x * 2^e (x > 0 without leading zero digit); inexact says
\* that the exact value lies above x * 2^e by less than 2^e
RoundToDouble(x, e, inexact) ==
    LET n == BitLength(x)
        s == n - MantissaBits
    IN IF s <= 0
       THEN [m |-> PadTo(StripZeros(ShiftLeft(x, -s)), MantissaLimbs), e |-> e + s]
       ELSE LET q == PadTo(StripZeros(ShiftRight(x, s)), MantissaLimbs)
                half == BitOf(x, s - 1) = 1
                above == inexact \/ (s > 1 /\ LowBitsSet(x, s - 1))
                up == half /\ (above \/ q[MantissaLimbs] % 2 = 1)
                r == StripZeros(Carry([q EXCEPT ![MantissaLimbs] = @ + 1]))
            IN IF ~up THEN [m |-> q, e |-> e + s]
               ELSE IF BitLength(r) > MantissaBits
                    THEN [m |-> PadTo(ShiftRight(r, 1), MantissaLimbs), e |-> e + s + 1]
                    ELSE [m |-> PadTo(r, MantissaLimbs), e |-> e + s]

FloatZero == [m |-> Zeros(MantissaLimbs), e |-> 0]
IsFloatZero(x) == IsZeroLimbs(x.m)

\* x \div d and x % d for a small divisor d
RECURSIVE DivideBy(_, _)
DivideBy(x, d) ==
    IF x = << >> THEN [q |-> << >>, r |-> 0]
    ELSE LET p == DivideBy(SubSeq(x, 1, Len(x) - 1), d)
             v == p.r * LimbBase + x[Len(x)]
         IN [q |-> Append(p.q, v \div d), r |-> v % d]

RECURSIVE Power(_, _)
Power(b, n) == IF n = 0 THEN 1 ELSE b * Power(b, n - 1)

\* float(Decimal): the double nearest to a quantity of q units of 10^-QuantityDecimals,
\* q / 10^QuantityDecimals = (q * 2^GuardShift \div 5^QuantityDecimals) * 2^-(GuardShift + QuantityDecimals)
GuardShift == 6 * LimbBits
FloatOf(q) ==
    IF q = 0 THEN FloatZero
    ELSE LET digits == <<q \div (LimbBase * LimbBase), (q \div LimbBase) % LimbBase, q % LimbBase>>
             d == DivideBy(digits \o Zeros(GuardShift \div LimbBits), Power(5, QuantityDecimals))
         IN RoundToDouble(StripZeros(d.q), -(GuardShift + QuantityDecimals), d.r # 0)

\* x <= y for doubles that are not negative
DigitsLeq(x, y) ==
    LET differ == {i \in 1 .. Len(x) : x[i] # y[i]}
    IN differ = {} \/ LET i == CHOOSE k \in differ : \A j \in differ : k <= j IN x[i] < y[i]

FloatLeq(x, y) ==
    IF IsFloatZero(x) THEN TRUE
    ELSE IF IsFloatZero(y) THEN FALSE
    ELSE IF x.e # y.e THEN x.e < y.e
    ELSE DigitsLeq(x.m, y.m)

\* x - y for doubles x >= y >= 0, rounded
FloatSub(x, y) ==
    IF IsFloatZero(y) THEN x
    ELSE LET xs == ShiftLeft(x.m, x.e - y.e)
             ys == PadTo(y.m, Len(xs))
             d == StripZeros(Carry([i \in 1 .. Len(xs) |-> xs[i] - ys[i]]))
         IN IF d = << >> THEN FloatZero ELSE RoundToDouble(d, y.e, FALSE)

\* x * y for doubles that are not negative, rounded
FloatMul(x, y) ==
    IF IsFloatZero(x) \/ IsFloatZero(y) THEN FloatZero
    ELSE LET n == MantissaLimbs
             columns == [k \in 1 .. 2 * n - 1 |->
                            LET I == {i \in 1 .. n : k + 1 - i \in 1 .. n}
                            IN SumOver([i \in I |-> x.m[i] * y.m[k + 1 - i]], I)]
         IN RoundToDouble(StripZeros(Carry(columns)), x.e + y.e, FALSE)

\* math.isclose(a, b, rel_tol=rel_tol) of CPython for doubles that are not negative:
\*   if a == b: return True
\*   diff = fabs(b - a)
\*   return diff <= fabs(rel_tol * b) or diff <= fabs(rel_tol * a) or diff <= abs_tol
\* with abs_tol = 0.0
float_isclose(a, b, rel_tol) ==
    IF a = b THEN TRUE
    ELSE LET diff == IF FloatLeq(a, b) THEN FloatSub(b, a) ELSE FloatSub(a, b)
         IN \/ FloatLeq(diff, FloatMul(rel_tol, b))
            \/ FloatLeq(diff, FloatMul(rel_tol, a))
            \/ IsFloatZero(diff)

\* NORMALIZED_PRECISION as a double: 1 / RelTolDen, in units of 10^-QuantityDecimals
rel_tol == FloatOf(Power(10, QuantityDecimals) \div RelTolDen)

\* math.isclose(a, b, rel_tol=NORMALIZED_PRECISION) for two Decimal quantities
isclose(a, b) == float_isclose(FloatOf(a), FloatOf(b), rel_tol)

\* the quantities that sums of the venue's fills reach, and isclose over them,
\* computed once
FillSums == 0 .. SumOver([f \in FillIds |-> FillQuantity(f)], FillIds)
IsCloseOfFillSums == [a \in FillSums |-> [b \in FillSums |-> isclose(a, b)]]

IsClose(a, b) ==
    IF a \in FillSums /\ b \in FillSums THEN IsCloseOfFillSums[a][b] ELSE isclose(a, b)

\* ------------------------------------------------------- IdexInFlightOrder
NewOrder(exchange_order_id, trade_type, amount) ==
    [exchange_order_id |-> exchange_order_id,
     trade_type |-> trade_type,
     amount |-> amount,
     executed_amount_base |-> 0,
     executed_amount_quote |-> 0,
     fee_paid |-> 0,
     last_state |-> "open",
     fill_id_set |-> {}]

\* mutant of is_done: a filled order does not count as done
is_done_unless_filled(o) == o.last_state \in {"canceled", "rejected"}

is_done(o) == o.last_state \in {"filled", "canceled", "rejected"}
is_failure(o) == o.last_state \in {"rejected"}
is_cancelled(o) == o.last_state \in {"canceled", "cancelled"}

\* mutant of FillUpdates: a fill id already in fill_id_set is reported as an update
FillUpdatesAgain(o, f) == f \in FillIds

\* the value update_with_fill_update returns: True if the order gets updated
FillUpdates(o, f) == f \notin o.fill_id_set

\* mutant of update_with_fill_update: the fill's quantity is assigned, not added
update_with_fill_update_assigning(o, f) ==
    IF f \in o.fill_id_set
    THEN o
    ELSE [o EXCEPT !.fill_id_set = @ \cup {f},
                   !.executed_amount_base = FillQuantity(f),
                   !.fee_paid = @ + FillFee(f),
                   !.executed_amount_quote = @ + FillPrice(f) * FillQuantity(f)]

\* the order after update_with_fill_update(fill f)
update_with_fill_update(o, f) ==
    IF f \in o.fill_id_set
    THEN o
    ELSE [o EXCEPT !.fill_id_set = @ \cup {f},
                   !.executed_amount_base = @ + FillQuantity(f),
                   !.fee_paid = @ + FillFee(f),
                   !.executed_amount_quote = @ + FillPrice(f) * FillQuantity(f)]

\* ---------------------------------------------------------------- events
NoEvents ==
    [BuyOrderCreated |-> 0, SellOrderCreated |-> 0,
     OrderFilled |-> [f \in FillIds |-> 0],
     OrderCancelled |-> 0, OrderFailure |-> 0,
     BuyOrderCompleted |-> 0, SellOrderCompleted |-> 0]

trigger_event(ev, c, tag) ==
    CASE tag = "BuyOrderCreated" -> [ev EXCEPT ![c].BuyOrderCreated = @ + 1]
      [] tag = "SellOrderCreated" -> [ev EXCEPT ![c].SellOrderCreated = @ + 1]
      [] tag = "OrderCancelled" -> [ev EXCEPT ![c].OrderCancelled = @ + 1]
      [] tag = "OrderFailure" -> [ev EXCEPT ![c].OrderFailure = @ + 1]
      [] tag = "BuyOrderCompleted" -> [ev EXCEPT ![c].BuyOrderCompleted = @ + 1]
      [] tag = "SellOrderCompleted" -> [ev EXCEPT ![c].SellOrderCompleted = @ + 1]

trigger_filled(ev, c, f) == [ev EXCEPT ![c].OrderFilled[f] = @ + 1]

\* ------------------------------------------------------------ Order Store
start_tracking_order(orders, c, exchange_order_id, trade_type, amount) ==
    [d \in DOMAIN orders \cup {c} |->
        IF d = c THEN NewOrder(exchange_order_id, trade_type, amount) ELSE orders[d]]

stop_tracking_order(orders, c) ==
    [d \in DOMAIN orders \ {c} |-> orders[d]]

\* the part of the connector a reconciler call reads and writes
Store(orders, ev, ce) == [orders |-> orders, events |-> ev, cancelled_event |-> ce]

\* ------------------------------------------------------------- reconciler
\* a venue message about one order: the REST get_order response or the data of
\* a push 'orders' event (both carry client order id, fills and status); a
\* report of a (partially) filled order carries at least one fill
OrderMsgs(c) ==
    { m \in [c : {c},
             fills : UNION { [1 .. n -> FillIds] : n \in 0 .. MaxMsgFills },
             status : Statuses] :
        m.status \in {"partiallyFilled", "filled"} => m.fills # << >> }

\* the for loop of _process_fill_message over the fill entries from position i on;
\* done is FALSE when the loop left the handler through 'return'
RECURSIVE fill_loop(_, _, _, _)
fill_loop(st, c, fills, i) ==
    IF i > Len(fills)
    THEN [st |-> st, done |-> TRUE]
    ELSE LET o == st.orders[c]
             f == fills[i]
         IN IF ~FillUpdates(o, f)
            THEN [st |-> st, done |-> FALSE]
            ELSE fill_loop(
                    [st EXCEPT !.orders[c] = update_with_fill_update(o, f),
                               !.events = trigger_filled(st.events, c, f)],
                    c, fills, i + 1)

\* the completion test of _process_fill_message
is_filled_amount(o) ==
    IsClose(o.executed_amount_base, o.amount) \/ o.executed_amount_base >= o.amount

_process_fill_message(st, msg) ==
    IF msg.c \notin DOMAIN st.orders
    THEN st
    ELSE LET r == fill_loop(st, msg.c, msg.fills, 1)
             o == r.st.orders[msg.c]
         IN IF ~r.done
            THEN r.st
            ELSE IF is_filled_amount(o)
                 THEN [r.st EXCEPT
                         !.events = trigger_event(r.st.events, msg.c,
                                        IF o.trade_type = "BUY" THEN "BuyOrderCompleted"
                                                                ELSE "SellOrderCompleted"),
                         !.orders = stop_tracking_order(r.st.orders, msg.c)]
                 ELSE r.st

\* mutant of _process_order_message: the test for an untracked order comes after
\* the cancellation branch
_process_order_message_unchecked(st, msg) ==
    IF msg.c \notin DOMAIN st.orders
    THEN IF msg.status \in {"canceled", "cancelled"}
         THEN [st EXCEPT !.events = trigger_event(st.events, msg.c, "OrderCancelled")]
         ELSE st
    ELSE LET o == [st.orders[msg.c] EXCEPT !.last_state = msg.status]
         IN IF is_cancelled(o)
            THEN [st EXCEPT !.events = trigger_event(st.events, msg.c, "OrderCancelled"),
                            !.cancelled_event[msg.c] = TRUE,
                            !.orders = stop_tracking_order(st.orders, msg.c)]
            ELSE IF is_failure(o)
                 THEN [st EXCEPT !.events = trigger_event(st.events, msg.c, "OrderFailure"),
                                 !.orders = stop_tracking_order(st.orders, msg.c)]
                 ELSE [st EXCEPT !.orders[msg.c] = o]

\* mutant of _process_order_message: the cancellation branch does not set the
\* order's cancelled_event
_process_order_message_without_signal(st, msg) ==
    IF msg.c \notin DOMAIN st.orders
    THEN st
    ELSE LET o == [st.orders[msg.c] EXCEPT !.last_state = msg.status]
         IN IF is_cancelled(o)
            THEN [st EXCEPT !.events = trigger_event(st.events, msg.c, "OrderCancelled"),
                            !.orders = stop_tracking_order(st.orders, msg.c)]
            ELSE IF is_failure(o)
                 THEN [st EXCEPT !.events = trigger_event(st.events, msg.c, "OrderFailure"),
                                 !.orders = stop_tracking_order(st.orders, msg.c)]
                 ELSE [st EXCEPT !.orders[msg.c] = o]

\* mutant of _process_order_message: the rejection branch keeps the record
_process_order_message_keeping_rejected(st, msg) ==
    IF msg.c \notin DOMAIN st.orders
    THEN st
    ELSE LET o == [st.orders[msg.c] EXCEPT !.last_state = msg.status]
         IN IF is_cancelled(o)
            THEN [st EXCEPT !.events = trigger_event(st.events, msg.c, "OrderCancelled"),
                            !.cancelled_event[msg.c] = TRUE,
                            !.orders = stop_tracking_order(st.orders, msg.c)]
            ELSE IF is_failure(o)
                 THEN [st EXCEPT !.events = trigger_event(st.events, msg.c, "OrderFailure"),
                                 !.orders[msg.c] = o]
                 ELSE [st EXCEPT !.orders[msg.c] = o]

_process_order_message(st, msg) ==
    IF msg.c \notin DOMAIN st.orders
    THEN st
    ELSE LET o == [st.orders[msg.c] EXCEPT !.last_state = msg.status]
         IN IF is_cancelled(o)
            THEN [st EXCEPT !.events = trigger_event(st.events, msg.c, "OrderCancelled"),
                            !.cancelled_event[msg.c] = TRUE,
                            !.orders = stop_tracking_order(st.orders, msg.c)]
            ELSE IF is_failure(o)
                 THEN [st EXCEPT !.events = trigger_event(st.events, msg.c, "OrderFailure"),
                                 !.orders = stop_tracking_order(st.orders, msg.c)]
                 ELSE [st EXCEPT !.orders[msg.c] = o]

\* one reconciler step: _process_fill_message followed by _process_order_message
reconcile(st, msg) == _process_order_message(_process_fill_message(st, msg), msg)

\* bookkeeping for the claims: the fill ids a message delivers for a tracked order
saturate(n) == IF n >= 2 THEN 2 ELSE n
count_in(fills, f) == Cardinality({i \in 1 .. Len(fills) : fills[i] = f})
note_delivered(dl, orders, msg) ==
    IF msg.c \notin DOMAIN orders
    THEN dl
    ELSE [dl EXCEPT ![msg.c] =
            [f \in FillIds |-> saturate(@[f] + count_in(msg.fills, f))]]

\* ---------------------------------------------------------------- IdexAuth
\* Text is a sequence of tokens <<characters, number>>: Str gives literal text,
\* UuidStr the text of the uuid whose integer value is n
Str(s) == << <<s, 0>> >>
UuidStr(n) == << <<"uuid1", n>> >>

\* the domains an IdexAuth is constructed with; "none" is Python's None
Domains == {"matic", "sandbox_matic", "none"}

WalletAddress == Str("0xWallet")
ApiKey == "api_key"
SecretKey == "secret_key"
RestUrl == Str("https://api/v1/orders")

\* uuid.uuid1() of the standard library: the time-based id is larger than the last
\* one the process generated
uuid1(last_timestamp) == last_timestamp + 1

\* the wallet private key of the configuration; "" when none is configured
WalletPrivateKey == "0xPrivateKey"

\* init_wallet: the wallet exists when a private key is given
init_wallet(private_key) == private_key # ""

\* IdexAuth.__init__, with the module-level state at that time
IdexAuth(wallet_private_key, domain) ==
    [_nonce |-> uuid1(0),
     _wallet |-> init_wallet(wallet_private_key),
     _domain |-> domain,
     last_timestamp |-> uuid1(0),
     _IS_IDEX_SANDBOX |-> FALSE,
     requests |-> << >>,
     built |-> << >>]

\* get_wallet_address: the address of the wallet, '' without one
get_wallet_address(a) == IF a._wallet THEN WalletAddress ELSE Str("")

\* idex_resolve.set_domain: the selection kept at module level
set_domain(a, domain) == [a EXCEPT !._IS_IDEX_SANDBOX = (domain = "sandbox_matic")]

get_idex_blockchain(a, domain) == "MATIC"

is_idex_sandbox(a, domain) ==
    IF domain = "matic" THEN FALSE
    ELSE IF domain = "sandbox_matic" THEN TRUE
    ELSE a._IS_IDEX_SANDBOX

HashVersionEnum(name) ==
    CASE name = "MATIC_PROD" -> 4
      [] name = "MATIC_SANDBOX" -> 104

OrderTypeEnum(name) ==
    CASE name = "market" -> 0
      [] name = "limit" -> 1
      [] name = "limitMaker" -> 2

OrderSideEnum(name) ==
    CASE name = "buy" -> 0
      [] name = "sell" -> 1

OrderTimeInForce(name) ==
    CASE name = "gtc" -> 0
      [] name = "ioc" -> 2
      [] name = "fok" -> 3

OrderSelfTradePreventionEnum(name) ==
    CASE name = "dc" -> 0
      [] name = "co" -> 1
      [] name = "cn" -> 2
      [] name = "cb" -> 3

\* generate_nonce stores a new uuid1; get_nonce_int and get_nonce_str read the
\* stored one
generate_nonce(a) ==
    [a EXCEPT !._nonce = uuid1(a.last_timestamp),
              !.last_timestamp = uuid1(a.last_timestamp)]

get_nonce_int(a) == a._nonce
get_nonce_str(a) == UuidStr(a._nonce)

\* hmac.new(key, data, sha256).hexdigest(): the digest stands for its key and data
hmac_sign(a, data) == [key |-> SecretKey, data |-> data]

\* str.encode("utf-8")
utf8(text) == [charset |-> "utf-8", text |-> text]

\* a dict is the sequence of its <<key, value>> items in insertion order
has_key(d, k) == \E i \in 1 .. Len(d) : d[i][1] = k
get_item(d, k) == d[CHOOSE i \in 1 .. Len(d) : d[i][1] = k][2]
dict_update(d, k, v) ==
    IF has_key(d, k)
    THEN [i \in 1 .. Len(d) |-> IF d[i][1] = k THEN <<k, v>> ELSE d[i]]
    ELSE Append(d, <<k, v>>)

\* urllib.parse.quote_plus: the characters outside the safe set are escaped
quote_plus(text) ==
    [i \in 1 .. Len(text) |->
        IF text[i][1] = "client:" THEN <<"client%3A", text[i][2]>> ELSE text[i]]

\* urllib.parse.urlencode: key=value items joined by '&'
RECURSIVE urlencode_from(_, _)
urlencode_from(d, i) ==
    IF i > Len(d)
    THEN << >>
    ELSE (IF i > 1 THEN Str("&") ELSE << >>)
         \o Str(d[i][1]) \o Str("=") \o quote_plus(d[i][2])
         \o urlencode_from(d, i + 1)

urlencode(d) == urlencode_from(d, 1)

\* json.dumps(..., separators=(',', ':')) of a dict of strings
RECURSIVE json_items_from(_, _)
json_items_from(d, i) ==
    IF i > Len(d)
    THEN << >>
    ELSE (IF i > 1 THEN Str(",") ELSE << >>)
         \o Str("'") \o Str(d[i][1]) \o Str("':'") \o d[i][2] \o Str("'")
         \o json_items_from(d, i + 1)

\* json.dumps of a request body: a dict with 'parameters' and, when there is one,
\* 'signature' (an empty signature stands for a missing key)
json_dumps(body) ==
    Str("{'parameters':{") \o json_items_from(body.parameters, 1) \o Str("}")
    \o (IF body.signature # << >>
        THEN Str(",'signature':'") \o body.signature \o Str("'")
        ELSE << >>)
    \o Str("}")

\* mutant of generate_auth_dict_for_get: the nonce of the call before is not
\* looked at, a new one is generated
generate_auth_dict_for_get_generating(a, url, params) ==
    LET p == IF has_key(params, "nonce") THEN params
             ELSE dict_update(params, "nonce", UuidStr(uuid1(a.last_timestamp)))
        encoded == urlencode(p)
    IN [headers |-> [api_key |-> ApiKey, signature |-> hmac_sign(a, utf8(encoded))],
        url |-> url \o Str("?") \o encoded,
        body |-> << >>]

generate_auth_dict_for_get(a, url, params) ==
    LET p == IF has_key(params, "nonce") THEN params
             ELSE dict_update(params, "nonce", get_nonce_str(a))
        encoded == urlencode(p)
    IN [headers |-> [api_key |-> ApiKey, signature |-> hmac_sign(a, utf8(encoded))],
        url |-> url \o Str("?") \o encoded,
        body |-> << >>]

\* mutant of generate_auth_dict_for_post: the digest covers the parameters only
generate_auth_dict_for_post_partly(a, url, body, wallet_signature) ==
    LET b1 == IF has_key(body.parameters, "nonce") THEN body
              ELSE [body EXCEPT !.parameters = dict_update(@, "nonce", get_nonce_str(a))]
        b2 == IF wallet_signature # << >> THEN [b1 EXCEPT !.signature = wallet_signature]
              ELSE b1
    IN [headers |-> [api_key |-> ApiKey,
                     signature |-> hmac_sign(a, utf8(Str("{")
                                                     \o json_items_from(b2.parameters, 1)
                                                     \o Str("}")))],
        url |-> url,
        body |-> json_dumps(b2)]

\* generate_auth_dict_for_post, also bound to generate_auth_dict_for_delete
generate_auth_dict_for_post(a, url, body, wallet_signature) ==
    LET b1 == IF has_key(body.parameters, "nonce") THEN body
              ELSE [body EXCEPT !.parameters = dict_update(@, "nonce", get_nonce_str(a))]
        b2 == IF wallet_signature # << >> THEN [b1 EXCEPT !.signature = wallet_signature]
              ELSE b1
        dumped == json_dumps(b2)
    IN [headers |-> [api_key |-> ApiKey, signature |-> hmac_sign(a, utf8(dumped))],
        url |-> url,
        body |-> dumped]

\* mutant of build_signature_params_for_order: price comes before the quantity
build_signature_params_for_order_reordered(a, args) ==
    LET blockchain == get_idex_blockchain(a, a._domain)
        platform == IF is_idex_sandbox(a, a._domain) THEN "SANDBOX" ELSE "PROD"
        hash_version == HashVersionEnum(IF platform = "SANDBOX" THEN "MATIC_SANDBOX"
                                                               ELSE "MATIC_PROD")
    IN << <<"uint8", hash_version>>,
          <<"uint128", get_nonce_int(a)>>,
          <<"address", get_wallet_address(a)>>,
          <<"string", args.market>>,
          <<"uint8", OrderTypeEnum(args.order_type)>>,
          <<"uint8", OrderSideEnum(args.order_side)>>,
          <<"string", args.price>>,
          <<"bool", args.quantity_in_quote>>,
          <<"string", args.order_quantity>>,
          <<"string", args.stop_price>>,
          <<"string", args.client_order_id>>,
          <<"uint8", OrderTimeInForce(args.time_in_force)>>,
          <<"uint8", OrderSelfTradePreventionEnum(args.selftrade_prevention)>>,
          <<"uint64", 0>> >>

build_signature_params_for_order(a, args) ==
    LET blockchain == get_idex_blockchain(a, a._domain)
        platform == IF is_idex_sandbox(a, a._domain) THEN "SANDBOX" ELSE "PROD"
        hash_version == HashVersionEnum(IF platform = "SANDBOX" THEN "MATIC_SANDBOX"
                                                               ELSE "MATIC_PROD")
    IN << <<"uint8", hash_version>>,
          <<"uint128", get_nonce_int(a)>>,
          <<"address", get_wallet_address(a)>>,
          <<"string", args.market>>,
          <<"uint8", OrderTypeEnum(args.order_type)>>,
          <<"uint8", OrderSideEnum(args.order_side)>>,
          <<"string", args.order_quantity>>,
          <<"bool", args.quantity_in_quote>>,
          <<"string", args.price>>,
          <<"string", args.stop_price>>,
          <<"string", args.client_order_id>>,
          <<"uint8", OrderTimeInForce(args.time_in_force)>>,
          <<"uint8", OrderSelfTradePreventionEnum(args.selftrade_prevention)>>,
          <<"uint64", 0>> >>

build_signature_params_for_cancel_order(a, market, client_order_id) ==
    << <<"uint128", get_nonce_int(a)>>,
       <<"address", get_wallet_address(a)>>,
       <<"string", client_order_id>>,
       <<"string", market>> >>

\* wallet_sign: the signature's text stands for the nonce of the signed tuple
wallet_sign(signature_parameters) ==
    LET i == CHOOSE j \in 1 .. Len(signature_parameters) :
                 signature_parameters[j][1] = "uint128"
    IN << <<"0xsigned", signature_parameters[i][2]>> >>

\* wallet_sign without a wallet: 'self._wallet.sign_message' on None raises (and
\* solidityKeccak before it rejects the empty address), before anything is sent
wallet_sign_raises(a) == ~a._wallet

\* the text of a client order id, of the exchange order id of an order
ClientOrderId(c) == << <<"buy-", c>> >>
OrderIdText(c) == << <<"order-", ExchangeId(c)>> >>

\* the arguments post_order builds the signature tuple from
OrderParams ==
    { [market |-> Str("ETH-USDC"), order_type |-> k.order_type, order_side |-> k.order_side,
       order_quantity |-> << <<"quantity", k.quantity>> >>, quantity_in_quote |-> FALSE,
       price |-> << <<"price", 2>> >>, stop_price |-> Str(""),
       client_order_id |-> ClientOrderId(c),
       time_in_force |-> "gtc", selftrade_prevention |-> "dc"] :
          k \in {[order_type |-> "limit", order_side |-> "buy", quantity |-> 3],
                 [order_type |-> "limitMaker", order_side |-> "sell", quantity |-> 2]},
          c \in 1 .. MaxOrders }

\* what the HTTP session sends of a prepared request: the query string of the url
\* for GET, the body for POST and DELETE
query_of(url) ==
    LET q == CHOOSE i \in 1 .. Len(url) : url[i] = <<"?", 0>>
    IN SubSeq(url, q + 1, Len(url))

transmitted(request) ==
    IF request.http_method = "GET"
    THEN utf8(query_of(request.auth_dict.url))
    ELSE utf8(request.auth_dict.body)

\* the nonce that the transmitted parameters of a request carry
send(a, http_method, params, auth_dict) ==
    [a EXCEPT !.requests =
        Append(@, [http_method |-> http_method,
                   nonce |-> IF has_key(params, "nonce") THEN get_item(params, "nonce")
                             ELSE get_nonce_str(a),
                   auth_dict |-> auth_dict])]

\* get_order up to session.get: a GET whose caller puts a new nonce into params
GetOrder ==
    /\ Len(auth.requests) < MaxCalls
    /\ \E c \in 1 .. MaxOrders :
        LET a == generate_nonce(auth)
            params == << <<"nonce", get_nonce_str(a)>>, <<"wallet", get_wallet_address(a)>>,
                         <<"orderId", OrderIdText(c)>> >>
        IN auth' = send(a, "GET", params, generate_auth_dict_for_get(a, RestUrl, params))
    /\ UNCHANGED <<in_flight_orders, cancelled_event, events, order_lock,
                   next_order_id, returned, delivered, deliveries, restarts, loops,
                       throttler, waiters>>

\* generate_auth_dict for a GET whose caller puts no nonce into params
GenerateAuthDictWithoutNonce ==
    /\ Len(auth.requests) < MaxCalls
    /\ LET params == << <<"wallet", get_wallet_address(auth)>> >>
       IN auth' = send(auth, "GET", params,
                       generate_auth_dict_for_get(auth, RestUrl, params))
    /\ UNCHANGED <<in_flight_orders, cancelled_event, events, order_lock,
                   next_order_id, returned, delivered, deliveries, restarts, loops,
                       throttler, waiters>>

\* mutant of PostOrder: the request is sent whether or not the wallet signed
PostOrderUnsigned ==
    /\ Len(auth.requests) < MaxCalls
    /\ auth.last_timestamp <= MaxCalls
    /\ \E args \in OrderParams :
        LET a == generate_nonce(auth)
            params == << <<"market", args.market>>, <<"type", Str(args.order_type)>>,
                         <<"side", Str(args.order_side)>>,
                         <<"quantity", args.order_quantity>>, <<"price", args.price>>,
                         <<"clientOrderId", args.client_order_id>>,
                         <<"nonce", get_nonce_str(a)>>, <<"wallet", get_wallet_address(a)>> >>
            signature_parameters == build_signature_params_for_order(a, args)
            body == [parameters |-> params, signature |-> Str("")]
        IN /\ auth' = [send(a, "POST", params,
                            generate_auth_dict_for_post(a, RestUrl, body, << >>))
                       EXCEPT !.built = << [args |-> args, nonce |-> a._nonce,
                                            signature_parameters |-> signature_parameters] >>]
           /\ UNCHANGED returned
    /\ UNCHANGED <<in_flight_orders, cancelled_event, events, order_lock,
                   next_order_id, delivered, deliveries, restarts, loops, throttler, waiters>>

\* post_order up to session.post, or to the exception that leaves it before
PostOrder ==
    /\ Len(auth.requests) < MaxCalls
    /\ auth.last_timestamp <= MaxCalls
    /\ \E args \in OrderParams :
        LET a == generate_nonce(auth)
            params == << <<"market", args.market>>, <<"type", Str(args.order_type)>>,
                         <<"side", Str(args.order_side)>>,
                         <<"quantity", args.order_quantity>>, <<"price", args.price>>,
                         <<"clientOrderId", args.client_order_id>>,
                         <<"nonce", get_nonce_str(a)>>, <<"wallet", get_wallet_address(a)>> >>
            signature_parameters == build_signature_params_for_order(a, args)
            wallet_signature == wallet_sign(signature_parameters)
            body == [parameters |-> params, signature |-> wallet_signature]
        IN IF wallet_sign_raises(a)
           THEN /\ auth' = a
                /\ returned' = [op |-> "post_order", outcome |-> "raised"]
           ELSE /\ auth' = [send(a, "POST", params,
                                 generate_auth_dict_for_post(a, RestUrl, body, << >>))
                            EXCEPT !.built = << [args |-> args, nonce |-> a._nonce,
                                                 signature_parameters |-> signature_parameters] >>]
                /\ UNCHANGED returned
    /\ UNCHANGED <<in_flight_orders, cancelled_event, events, order_lock,
                   next_order_id, delivered, deliveries, restarts, loops, throttler, waiters>>

\* mutant of DeleteOrder: the signature tuple is built before generate_nonce
DeleteOrderSignedBefore ==
    /\ Len(auth.requests) < MaxCalls
    /\ auth.last_timestamp <= MaxCalls
    /\ \E c \in 1 .. MaxOrders :
        LET a == generate_nonce(auth)
            orderId == Str("client:") \o ClientOrderId(c)
            params == << <<"nonce", get_nonce_str(a)>>, <<"wallet", get_wallet_address(a)>>,
                         <<"orderId", orderId>> >>
            signature_parameters ==
                build_signature_params_for_cancel_order(auth, Str(""), orderId)
            wallet_signature == wallet_sign(signature_parameters)
            body == [parameters |-> params, signature |-> wallet_signature]
        IN /\ auth' = send(a, "DELETE", params,
                           generate_auth_dict_for_post(a, RestUrl, body, wallet_signature))
           /\ UNCHANGED returned
    /\ UNCHANGED <<in_flight_orders, cancelled_event, events, order_lock,
                   next_order_id, delivered, deliveries, restarts, loops, throttler, waiters>>

\* delete_order up to session.delete, or to the exception that leaves it before
DeleteOrder ==
    /\ Len(auth.requests) < MaxCalls
    /\ auth.last_timestamp <= MaxCalls
    /\ \E c \in 1 .. MaxOrders :
        LET a == generate_nonce(auth)
            orderId == Str("client:") \o ClientOrderId(c)
            params == << <<"nonce", get_nonce_str(a)>>, <<"wallet", get_wallet_address(a)>>,
                         <<"orderId", orderId>> >>
            signature_parameters ==
                build_signature_params_for_cancel_order(a, Str(""), orderId)
            wallet_signature == wallet_sign(signature_parameters)
            body == [parameters |-> params, signature |-> wallet_signature]
        IN IF wallet_sign_raises(a)
           THEN /\ auth' = a
                /\ returned' = [op |-> "delete_order", outcome |-> "raised"]
           ELSE /\ auth' = send(a, "DELETE", params,
                                generate_auth_dict_for_post(a, RestUrl, body, wallet_signature))
                /\ UNCHANGED returned
    /\ UNCHANGED <<in_flight_orders, cancelled_event, events, order_lock,
                   next_order_id, delivered, deliveries, restarts, loops, throttler, waiters>>

\* another IdexExchange is constructed for a domain: its __init__ calls set_domain
SetDomain ==
    /\ \E domain \in Domains \ {"none"} :
          /\ set_domain(auth, domain) # auth
          /\ auth' = set_domain(auth, domain)
    /\ UNCHANGED <<in_flight_orders, cancelled_event, events, order_lock,
                   next_order_id, returned, delivered, deliveries, restarts, loops,
                       throttler, waiters>>

\* ------------------------------------------------------- rate limits
HTTP_PUBLIC_ENDPOINTS_LIMIT_ID == "PublicAccessHTTP"
HTTP_USER_ENDPOINTS_LIMIT_ID == "UserAccessHTTP"

\* mutant of RATE_LIMITS: the user pool is configured one above the venue's quota
RATE_LIMITS_above ==
    (HTTP_PUBLIC_ENDPOINTS_LIMIT_ID :> [limit |-> 5, time_interval |-> 1])
    @@ (HTTP_USER_ENDPOINTS_LIMIT_ID :> [limit |-> 11, time_interval |-> 1])

\* RATE_LIMITS by limit id; time_interval in seconds
RATE_LIMITS ==
    (HTTP_PUBLIC_ENDPOINTS_LIMIT_ID :> [limit |-> 5, time_interval |-> 1])
    @@ (HTTP_USER_ENDPOINTS_LIMIT_ID :> [limit |-> 10, time_interval |-> 1])

\* the methods of IdexExchange that call the venue inside
\* 'async with get_throttler().execute_task(limit_id)', and their limit id
ThrottledMethods ==
    {"get_ping", "list_orders", "get_order", "post_order", "delete_order",
     "get_balances_from_api", "get_exchange_info_from_api",
     "get_market_info_from_api", "get_assets_from_api"}

limit_id_of(method) ==
    IF method \in {"get_market_info_from_api", "get_assets_from_api"}
    THEN HTTP_PUBLIC_ENDPOINTS_LIMIT_ID
    ELSE HTTP_USER_ENDPOINTS_LIMIT_ID

\* the instants of one time_interval of a pool
Ages(rate_limit) == 0 .. rate_limit.time_interval * TicksPerSecond - 1

\* the throttler get_throttler constructs: per pool the callers waiting for a
\* capacity unit and the calls started at each of the instants of the last
\* time_interval; entered counts the callers of execute_task so far
AsyncThrottler(rate_limits) ==
    [pools |-> [id \in DOMAIN rate_limits |->
                   [waiting |-> 0,
                    task_logs |-> [age \in Ages(rate_limits[id]) |-> 0]]],
     entered |-> 0]

RECURSIVE SumTo(_, _)
SumTo(f, n) == IF n < 0 THEN 0 ELSE f[n] + SumTo(f, n - 1)

\* the calls of a pool started within the last time_interval
within_interval(pool) ==
    SumTo(pool.task_logs, Cardinality(DOMAIN pool.task_logs) - 1)

\* a capacity unit of the pool is available
within_capacity(t, limit_id) ==
    within_interval(t.pools[limit_id]) < RATE_LIMITS[limit_id].limit

\* a caller enters execute_task(limit_id) and waits for a capacity unit
execute_task(t, limit_id) ==
    [t EXCEPT !.pools[limit_id].waiting = @ + 1, !.entered = @ + 1]

\* the caller that has waited longest gets a capacity unit and starts its call
acquire(t, limit_id) ==
    [t EXCEPT !.pools[limit_id].waiting = @ - 1,
              !.pools[limit_id].task_logs[0] = @ + 1]

\* the clock moves on by one instant: the calls started a time_interval ago
\* leave the logs
flush(t) ==
    [t EXCEPT !.pools =
        [id \in DOMAIN t.pools |->
            [t.pools[id] EXCEPT !.task_logs =
                [age \in DOMAIN t.pools[id].task_logs |->
                    IF age = 0 THEN 0 ELSE t.pools[id].task_logs[age - 1]]]]]

\* one of the throttled methods is called: it enters execute_task of its pool
ThrottledCall ==
    /\ throttler.entered < MaxCallers
    /\ \E method \in ThrottledMethods :
          throttler' = execute_task(throttler, limit_id_of(method))
    /\ UNCHANGED <<in_flight_orders, cancelled_event, events, order_lock, next_order_id,
                   returned, delivered, deliveries, restarts, loops, auth, waiters>>

\* a waiting caller of the pool is let into the body of 'async with': its HTTP
\* call starts
Starts(limit_id) ==
    /\ throttler.pools[limit_id].waiting > 0
    /\ within_capacity(throttler, limit_id)
    /\ throttler' = acquire(throttler, limit_id)
    /\ UNCHANGED <<in_flight_orders, cancelled_event, events, order_lock, next_order_id,
                   returned, delivered, deliveries, restarts, loops, auth, waiters>>

ThrottledCallStarts == \E limit_id \in DOMAIN RATE_LIMITS : Starts(limit_id)

\* time passes
ThrottlerTick ==
    /\ throttler' = flush(throttler)
    /\ UNCHANGED <<in_flight_orders, cancelled_event, events, order_lock, next_order_id,
                   returned, delivered, deliveries, restarts, loops, auth, waiters>>

\* ------------------------------------------------------------------ Init
Init ==
    /\ in_flight_orders = << >>
    /\ cancelled_event = [c \in Ids |-> FALSE]
    /\ events = [c \in Ids |-> NoEvents]
    /\ order_lock = Unlocked
    /\ next_order_id = 0
    /\ returned = NoResult
    /\ delivered = [c \in Ids |-> [f \in FillIds |-> 0]]
    /\ deliveries = 0
    /\ restarts = 0
    /\ loops = Started
    /\ auth = IdexAuth(WalletPrivateKey, "matic")
    /\ throttler = AsyncThrottler(RATE_LIMITS)
    /\ waiters = << >>

\* ------------------------------------------------- push 'orders' events
\* _user_stream_event_listener handling one 'orders' event; it does not take
\* _order_lock, so it runs between the two halves of any locked operation
\* the 'orders' branch of the listener for one event: _process_fill_message, then
\* _process_order_message
OrdersEvent(msg) ==
    LET st == reconcile(Store(in_flight_orders, events, cancelled_event), msg)
    IN /\ in_flight_orders' = st.orders
       /\ events' = st.events
       /\ cancelled_event' = st.cancelled_event
       /\ delivered' = note_delivered(delivered, in_flight_orders, msg)
       /\ deliveries' = deliveries + 1
       /\ returned' = NoResult
       /\ UNCHANGED <<order_lock, next_order_id, restarts, loops, auth, throttler, waiters>>

UserStreamOrdersEvent ==
    /\ deliveries < MaxDeliveries
    /\ \E c \in 1 .. next_order_id : \E msg \in OrderMsgs(c) : OrdersEvent(msg)

\* the 'orders' events that report an order's status and carry no fills
StatusMsgs(c) == {m \in OrderMsgs(c) : m.fills = << >>}

\* _user_stream_event_listener handling one 'orders' event without fills
UserStreamOrderStatusEvent ==
    /\ deliveries < MaxDeliveries
    /\ \E c \in 1 .. next_order_id : \E msg \in StatusMsgs(c) : OrdersEvent(msg)

\* ------------------------------------------------------- _create_order
\* buy()/sell() hand out a new client order id; _create_order takes the lock and
\* fails one of its checks before post_order (order type, trading rule, minimum
\* size): the except branch triggers OrderFailure and stops tracking
CreateOrderInvalid ==
    /\ order_lock = Unlocked
    /\ next_order_id < MaxOrders
    /\ LET c == next_order_id + 1
       IN /\ next_order_id' = c
          /\ events' = trigger_event(events, c, "OrderFailure")
          /\ in_flight_orders' = stop_tracking_order(in_flight_orders, c)
          /\ returned' = [op |-> "create", id |-> c, outcome |-> "none"]
    /\ UNCHANGED <<cancelled_event, order_lock, delivered, deliveries, restarts, loops,
        auth, throttler, waiters>>

\* _create_order up to 'await self.post_order(api_params)'
create_order_begin ==
    /\ order_lock = Unlocked
    /\ next_order_id < MaxOrders
    /\ \E inp \in OrderInputs :
          order_lock' = [kind |-> "create", id |-> next_order_id + 1,
                         trade_type |-> inp.trade_type, amount |-> inp.amount]
    /\ next_order_id' = next_order_id + 1
    /\ returned' = NoResult
    /\ UNCHANGED <<in_flight_orders, cancelled_event, events,
                   delivered, deliveries, restarts, loops, auth, throttler>>

\* _create_order finds _order_lock free and no operation waiting for it
CreateOrderBegin ==
    /\ waiters = << >>
    /\ create_order_begin
    /\ UNCHANGED waiters

\* what post_order gives back: the venue's JSON with or without an orderId, or
\* an exception (non-200 status, signing or transport failure)
PostResponses(c) ==
    {[kind |-> "json", orderId |-> ExchangeId(c)],
     [kind |-> "json", orderId |-> NoId],
     [kind |-> "exception"]}

\* the outcomes of post_order for the IdexAuth of the exchange: without a wallet
\* only the exception of wallet_sign
post_order_results(a, c) ==
    IF wallet_sign_raises(a) THEN {[kind |-> "exception"]} ELSE PostResponses(c)

\* mutant of CreateOrderFinish: without the 'except Exception' branch, an exception
\* of post_order leaves _create_order
CreateOrderFinishRaising ==
    /\ order_lock.kind = "create"
    /\ \E resp \in PostResponses(order_lock.id) :
        LET c == order_lock.id
        IN IF resp.kind = "json"
           THEN /\ in_flight_orders' =
                      start_tracking_order(in_flight_orders, c, resp.orderId,
                                           order_lock.trade_type, order_lock.amount)
                /\ events' = trigger_event(events, c,
                                 IF order_lock.trade_type = "BUY" THEN "BuyOrderCreated"
                                                                  ELSE "SellOrderCreated")
                /\ returned' = [op |-> "create", id |-> c, outcome |-> "none"]
           ELSE /\ returned' = [op |-> "create", id |-> c, outcome |-> "raised"]
                /\ UNCHANGED <<in_flight_orders, events>>
    /\ order_lock' = Unlocked
    /\ UNCHANGED <<cancelled_event, next_order_id, delivered, deliveries, restarts,
        loops, auth, throttler, waiters>>

\* mutant of CreateOrderFinish: the created event is triggered for the venue's
\* answer without start_tracking_order
CreateOrderFinishUntracked ==
    /\ order_lock.kind = "create"
    /\ \E resp \in post_order_results(auth, order_lock.id) :
        LET c == order_lock.id
        IN IF resp.kind = "json"
           THEN /\ in_flight_orders' = in_flight_orders
                /\ events' = trigger_event(events, c,
                                 IF order_lock.trade_type = "BUY" THEN "BuyOrderCreated"
                                                                  ELSE "SellOrderCreated")
                /\ returned' = [op |-> "create", id |-> c, outcome |-> "none"]
           ELSE /\ events' = trigger_event(events, c, "OrderFailure")
                /\ in_flight_orders' = stop_tracking_order(in_flight_orders, c)
                /\ returned' = [op |-> "create", id |-> c, outcome |-> "none"]
    /\ order_lock' = Unlocked
    /\ UNCHANGED <<cancelled_event, next_order_id, delivered, deliveries, restarts, loops,
                   auth, throttler, waiters>>

\* mutant of CreateOrderFinish: the lock is released after the try statement
\* only, not when the except branch is taken
CreateOrderFinishHolding ==
    /\ order_lock.kind = "create"
    /\ \E resp \in post_order_results(auth, order_lock.id) :
        LET c == order_lock.id
        IN IF resp.kind = "json"
           THEN /\ in_flight_orders' =
                      start_tracking_order(in_flight_orders, c, resp.orderId,
                                           order_lock.trade_type, order_lock.amount)
                /\ events' = trigger_event(events, c,
                                 IF order_lock.trade_type = "BUY" THEN "BuyOrderCreated"
                                                                  ELSE "SellOrderCreated")
                /\ returned' = [op |-> "create", id |-> c, outcome |-> "none"]
                /\ order_lock' = Unlocked
           ELSE /\ events' = trigger_event(events, c, "OrderFailure")
                /\ in_flight_orders' = stop_tracking_order(in_flight_orders, c)
                /\ returned' = [op |-> "create", id |-> c, outcome |-> "none"]
                /\ order_lock' = [order_lock EXCEPT !.kind = "held"]
    /\ UNCHANGED <<cancelled_event, next_order_id, delivered, deliveries, restarts, loops,
                   auth, throttler, waiters>>

\* _create_order from the result of post_order to the release of the lock
CreateOrderFinish ==
    /\ order_lock.kind = "create"
    /\ \E resp \in post_order_results(auth, order_lock.id) :
        LET c == order_lock.id
        IN IF resp.kind = "json"
           THEN /\ in_flight_orders' =
                      start_tracking_order(in_flight_orders, c, resp.orderId,
                                           order_lock.trade_type, order_lock.amount)
                /\ events' = trigger_event(events, c,
                                 IF order_lock.trade_type = "BUY" THEN "BuyOrderCreated"
                                                                  ELSE "SellOrderCreated")
                /\ returned' = [op |-> "create", id |-> c, outcome |-> "none"]
           ELSE /\ events' = trigger_event(events, c, "OrderFailure")
                /\ in_flight_orders' = stop_tracking_order(in_flight_orders, c)
                /\ returned' = [op |-> "create", id |-> c, outcome |-> "none"]
    /\ order_lock' = Unlocked
    /\ UNCHANGED <<cancelled_event, next_order_id, delivered, deliveries, restarts,
        loops, auth, throttler, waiters>>

\* ------------------------------------------------------ _execute_cancel
\* what delete_order gives back: a list whose first entry names an order id, an
\* empty response, an IOError for a non-200 status (whose text carries the
\* venue's body), or another exception (signing, transport)
DeleteResponses ==
    {[kind |-> "ids", orderId |-> x] : x \in {ExchangeId(d) : d \in Ids} \cup {NoId}}
    \cup {[kind |-> "empty"], [kind |-> "http_error", body |-> "order not found"],
          [kind |-> "http_error", body |-> "other"], [kind |-> "exception"]}

\* the outcomes of delete_order for the IdexAuth of the exchange: without a wallet
\* only the exception of wallet_sign
delete_order_results(a) ==
    IF wallet_sign_raises(a) THEN {[kind |-> "exception"]} ELSE DeleteResponses

\* mutants of mentions_order_not_found: the test misses the text raised for an
\* empty response / for a different order id
mentions_order_not_found_but_empty(err) ==
    err \in {"different_order_id", "http_not_found"}

mentions_order_not_found_but_different(err) ==
    err \in {"returned_empty", "http_not_found"}

\* the IOErrors _execute_cancel handles, by where they are raised
\*   "returned_empty"      line 421    "different_order_id"  line 435
\*   "http_not_found"/"http_other"  delete_order, line 601, by the venue's body
\* '"order not found" in str(e).lower()' of the except branch
mentions_order_not_found(err) ==
    err \in {"returned_empty", "different_order_id", "http_not_found"}

\* mutant of cancel_error: the returned order id is never taken as the tracked one
cancel_error_never_matching(exchange_order_id, resp) ==
    CASE resp.kind = "empty" -> "returned_empty"
      [] resp.kind = "ids" -> "different_order_id"
      [] resp.kind = "http_error" ->
            IF resp.body = "order not found" THEN "http_not_found" ELSE "http_other"
      [] OTHER -> "none"

\* the IOError the try block of _execute_cancel ends with, "none" when it returns
cancel_error(exchange_order_id, resp) ==
    CASE resp.kind = "empty" -> "returned_empty"
      [] resp.kind = "ids" ->
            IF exchange_order_id = resp.orderId THEN "none" ELSE "different_order_id"
      [] resp.kind = "http_error" ->
            IF resp.body = "order not found" THEN "http_not_found" ELSE "http_other"
      [] OTHER -> "none"

\* mutant of ExecuteCancelUntracked: the except branch without its test
\* 'tracked_order is not None' handles the IOError as the not-found case
ExecuteCancelUntrackedAsNotFound ==
    /\ order_lock = Unlocked
    /\ \E c \in Ids :
        /\ c \notin DOMAIN in_flight_orders
        /\ events' = trigger_event(events, c, "OrderCancelled")
        /\ returned' = [op |-> "cancel", id |-> c, exchange_order_id |-> NoId,
                        response |-> [kind |-> "none"], outcome |-> "returned"]
    /\ UNCHANGED <<in_flight_orders, cancelled_event, order_lock,
                  next_order_id, delivered, deliveries, restarts, loops, auth, throttler, waiters>>

\* _execute_cancel for a client order id that is not tracked: IOError is raised
\* and re-raised by the except branch (tracked_order is None)
execute_cancel_untracked ==
    /\ order_lock = Unlocked
    /\ \E c \in Ids :
        /\ c \notin DOMAIN in_flight_orders
        /\ returned' = [op |-> "cancel", id |-> c, exchange_order_id |-> NoId,
                        response |-> [kind |-> "none"], outcome |-> "raised"]
    /\ UNCHANGED <<in_flight_orders, cancelled_event, events, order_lock,
                  next_order_id, delivered, deliveries, restarts, loops, auth, throttler>>

\* _execute_cancel finds _order_lock free and no operation waiting for it
ExecuteCancelUntracked ==
    /\ waiters = << >>
    /\ execute_cancel_untracked
    /\ UNCHANGED waiters

\* mutant of execute_cancel_begin: _execute_cancel without 'async with
\* self._order_lock'
execute_cancel_begin_unlocked ==
    /\ \E c \in DOMAIN in_flight_orders :
        order_lock' = [kind |-> "cancel", id |-> c,
                       exchange_order_id |-> in_flight_orders[c].exchange_order_id]
    /\ returned' = NoResult
    /\ UNCHANGED <<in_flight_orders, cancelled_event, events,
                  next_order_id, delivered, deliveries, restarts, loops, auth, throttler>>

\* _execute_cancel up to 'await self.delete_order(...)'
execute_cancel_begin ==
    /\ order_lock = Unlocked
    /\ \E c \in DOMAIN in_flight_orders :
        order_lock' = [kind |-> "cancel", id |-> c,
                       exchange_order_id |-> in_flight_orders[c].exchange_order_id]
    /\ returned' = NoResult
    /\ UNCHANGED <<in_flight_orders, cancelled_event, events,
                  next_order_id, delivered, deliveries, restarts, loops, auth, throttler>>

\* _execute_cancel finds _order_lock free and no operation waiting for it
ExecuteCancelBegin ==
    /\ waiters = << >>
    /\ execute_cancel_begin
    /\ UNCHANGED waiters

\* _execute_cancel from the result of delete_order to the release of the lock
ExecuteCancelFinish ==
    /\ order_lock.kind = "cancel"
    /\ \E resp \in delete_order_results(auth) :
        LET c == order_lock.id
            err == cancel_error(order_lock.exchange_order_id, resp)
        IN IF resp.kind = "exception"
           THEN \* except Exception: logged, nothing raised, None returned
                /\ returned' = [op |-> "cancel", id |-> c,
                                exchange_order_id |-> order_lock.exchange_order_id,
                                response |-> resp, outcome |-> "none"]
                /\ UNCHANGED <<in_flight_orders, events, cancelled_event>>
           ELSE IF err = "none"
           THEN /\ in_flight_orders' = stop_tracking_order(in_flight_orders, c)
                /\ events' = trigger_event(events, c, "OrderCancelled")
                /\ cancelled_event' = [cancelled_event EXCEPT ![c] = TRUE]
                /\ returned' = [op |-> "cancel", id |-> c,
                                exchange_order_id |-> order_lock.exchange_order_id,
                                response |-> resp, outcome |-> "returned"]
           ELSE IF mentions_order_not_found(err)
           THEN /\ in_flight_orders' = stop_tracking_order(in_flight_orders, c)
                /\ events' = trigger_event(events, c, "OrderCancelled")
                /\ returned' = [op |-> "cancel", id |-> c,
                                exchange_order_id |-> order_lock.exchange_order_id,
                                response |-> resp, outcome |-> "returned"]
                /\ UNCHANGED cancelled_event
           ELSE /\ returned' = [op |-> "cancel", id |-> c,
                                exchange_order_id |-> order_lock.exchange_order_id,
                                response |-> resp, outcome |-> "raised"]
                /\ UNCHANGED <<in_flight_orders, events, cancelled_event>>
    /\ order_lock' = Unlocked
    /\ UNCHANGED <<next_order_id, delivered, deliveries, restarts, loops, auth, throttler, waiters>>

\* ------------------------------------------------------------ cancel_all
\* the ids of S in ascending order (the store is a dict in insertion order, and
\* client order ids are inserted in the order they were handed out)
RECURSIVE in_order(_)
in_order(S) ==
    IF S = {} THEN << >>
    ELSE LET m == CHOOSE x \in S : \A y \in S : x <= y
         IN <<m>> \o in_order(S \ {m})

\* cancel_all up to 'await safe_gather(*tasks, return_exceptions=True)'
cancel_all_begin ==
    /\ order_lock = Unlocked
    /\ LET incomplete_orders ==
               {c \in DOMAIN in_flight_orders : ~is_done(in_flight_orders[c])}
       IN order_lock' = [kind |-> "cancel_all",
                         orders |-> [c \in incomplete_orders |->
                                        in_flight_orders[c].exchange_order_id]]
    /\ returned' = NoResult
    /\ UNCHANGED <<in_flight_orders, cancelled_event, events,
                  next_order_id, delivered, deliveries, restarts, loops, auth, throttler>>

\* cancel_all finds _order_lock free and no operation waiting for it
CancelAllBegin ==
    /\ waiters = << >>
    /\ cancel_all_begin
    /\ UNCHANGED waiters

\* mutant of cancel_all_loop: the order id is not removed from order_id_set
RECURSIVE cancel_all_loop_keeping_id(_, _, _, _)
cancel_all_loop_keeping_id(st, ids, results, i) ==
    IF i > Len(ids)
    THEN st
    ELSE LET c == ids[i]
         IN IF results[c].kind \in {"http_error", "exception"}
            THEN cancel_all_loop_keeping_id(st, ids, results, i + 1)
            ELSE cancel_all_loop_keeping_id(
                    [st EXCEPT
                        !.successful_cancellations = Append(@, <<c, TRUE>>),
                        !.orders = stop_tracking_order(st.orders, c),
                        !.events = trigger_event(st.events, c, "OrderCancelled"),
                        !.cancelled_event[c] = TRUE],
                    ids, results, i + 1)

\* the loop of cancel_all over zip(incomplete_orders, results), from position i on;
\* st carries the store, the order_id_set and the successful_cancellations
RECURSIVE cancel_all_loop(_, _, _, _)
cancel_all_loop(st, ids, results, i) ==
    IF i > Len(ids)
    THEN st
    ELSE LET c == ids[i]
         IN IF results[c].kind \in {"http_error", "exception"}
            THEN cancel_all_loop(st, ids, results, i + 1)
            ELSE cancel_all_loop(
                    [st EXCEPT
                        !.order_id_set = @ \ {c},
                        !.successful_cancellations = Append(@, <<c, TRUE>>),
                        !.orders = stop_tracking_order(st.orders, c),
                        !.events = trigger_event(st.events, c, "OrderCancelled"),
                        !.cancelled_event[c] = TRUE],
                    ids, results, i + 1)

\* [CancellationResult(oid, False) for oid in order_id_set]
failed_cancellations(order_id_set) ==
    LET ids == in_order(order_id_set)
    IN [i \in 1 .. Len(ids) |-> <<ids[i], FALSE>>]

\* cancel_all from the end of the gather (all calls done, or the deadline) to the
\* release of the lock; late are the calls not completed at the deadline
CancelAllFinish ==
    /\ order_lock.kind = "cancel_all"
    /\ LET scope == DOMAIN order_lock.orders
       IN \E late \in SUBSET scope : \E results \in [scope \ late -> delete_order_results(auth)] :
            LET st0 == [orders |-> in_flight_orders, events |-> events,
                        cancelled_event |-> cancelled_event,
                        order_id_set |-> scope,
                        successful_cancellations |-> << >>]
                st == IF late # {}
                      THEN st0      \* asyncio.TimeoutError leaves the gather: no result is read
                      ELSE cancel_all_loop(st0, in_order(scope), results, 1)
            IN /\ in_flight_orders' = st.orders
               /\ events' = st.events
               /\ cancelled_event' = st.cancelled_event
               /\ returned' = [op |-> "cancel_all", scope |-> scope, late |-> late,
                               errored |-> {c \in scope \ late :
                                              results[c].kind \in {"http_error", "exception"}},
                               results |-> st.successful_cancellations
                                           \o failed_cancellations(st.order_id_set)]
    /\ order_lock' = Unlocked
    /\ UNCHANGED <<next_order_id, delivered, deliveries, restarts, loops, auth, throttler, waiters>>

\* _update_order_status from 'async with self._order_lock' to the await of the gather
update_order_status_locked ==
    /\ order_lock = Unlocked
    /\ order_lock' = [kind |-> "poll", orders |-> DOMAIN in_flight_orders]
    /\ returned' = NoResult
    /\ UNCHANGED <<in_flight_orders, cancelled_event, events, next_order_id,
                   delivered, deliveries, restarts, auth, throttler>>

\* --------------------------------------------------- _update_order_status
\* _update_order_status passes its test 'current_tick > last_tick and
\* len(self._in_flight_orders) > 0', takes the lock and gathers get_order for
\* every tracked order
update_order_status_begin ==
    /\ DOMAIN in_flight_orders # {}
    /\ update_order_status_locked

UpdateOrderStatusBegin ==
    /\ waiters = << >>
    /\ update_order_status_begin
    /\ UNCHANGED <<loops, waiters>>

\* what get_order gives back for client order id c: the order's JSON or an exception
GetOrderResults(c) == OrderMsgs(c) \cup {[kind |-> "exception"]}

is_exception(r) == "kind" \in DOMAIN r

\* mutant of update_order_status_loop: a failed fetch ends the loop
RECURSIVE update_order_status_loop_ending(_, _, _, _)
update_order_status_loop_ending(st, ids, results, i) ==
    IF i > Len(ids)
    THEN st
    ELSE LET c == ids[i]
         IN IF is_exception(results[c])
            THEN [st EXCEPT !.orders = stop_tracking_order(st.orders, c),
                            !.events = trigger_event(st.events, c, "OrderFailure")]
            ELSE update_order_status_loop_ending(reconcile(st, results[c]),
                                                 ids, results, i + 1)

\* the loop of _update_order_status over zip(tracked_orders, update_results)
RECURSIVE update_order_status_loop(_, _, _, _)
update_order_status_loop(st, ids, results, i) ==
    IF i > Len(ids)
    THEN st
    ELSE LET c == ids[i]
         IN IF is_exception(results[c])
            THEN update_order_status_loop(
                    [st EXCEPT !.orders = stop_tracking_order(st.orders, c),
                               !.events = trigger_event(st.events, c, "OrderFailure")],
                    ids, results, i + 1)
            ELSE update_order_status_loop(reconcile(st, results[c]), ids, results, i + 1)

\* the deliveries of one poll, noted in the order the loop reads them
RECURSIVE note_polled(_, _, _, _, _)
note_polled(dl, st, ids, results, i) ==
    IF i > Len(ids)
    THEN dl
    ELSE LET c == ids[i]
         IN IF is_exception(results[c])
            THEN note_polled(dl, st, ids, results, i + 1)
            ELSE note_polled(note_delivered(dl, st.orders, results[c]), st,
                             ids, results, i + 1)

\* _update_order_status from the results of the gather to the release of the lock
UpdateOrderStatusFinish ==
    /\ order_lock.kind = "poll"
    /\ deliveries < MaxDeliveries
    /\ deliveries' = deliveries + 1
    /\ \E results \in [order_lock.orders -> UNION {GetOrderResults(c) : c \in order_lock.orders}] :
        /\ \A c \in order_lock.orders : results[c] \in GetOrderResults(c)
        /\ LET st0 == Store(in_flight_orders, events, cancelled_event)
               ids == in_order(order_lock.orders)
               st == update_order_status_loop(st0, ids, results, 1)
           IN /\ in_flight_orders' = st.orders
              /\ events' = st.events
              /\ cancelled_event' = st.cancelled_event
              /\ delivered' = note_polled(delivered, st0, ids, results, 1)
    /\ order_lock' = Unlocked
    /\ returned' = NoResult
    /\ UNCHANGED <<next_order_id, restarts, loops, auth, throttler, waiters>>

\* ------------------------------------ _status_polling_loop, the listener
\* what an iteration of either loop can be left with: a failed REST call, a key
\* missing from a malformed event, or the task's cancellation
Raised == {"IOError", "KeyError", "CancelledError"}

\* a loop is over when its task was cancelled or an exception left the coroutine
Over == {"cancelled", "ended"}

\* mutant of status_polling_loop_except: only cancellation is handled
status_polling_loop_except_missing(exc) ==
    IF exc = "CancelledError" THEN "cancelled" ELSE "ended"

\* the except clauses of _status_polling_loop: CancelledError is raised again,
\* any other Exception is logged and followed by 'await asyncio.sleep(0.5)'
status_polling_loop_except(exc) ==
    IF exc = "CancelledError" THEN "cancelled" ELSE "sleeping"

\* the except clauses of _iter_user_event_queue: CancelledError is raised again,
\* any other Exception is logged and followed by 'await asyncio.sleep(1.0)'
iter_user_event_queue_except(exc) ==
    IF exc = "CancelledError" THEN "cancelled" ELSE "retrying"

\* the except clauses of _user_stream_event_listener: CancelledError is raised
\* again, any other Exception is logged and followed by 'await asyncio.sleep(5.0)'
user_stream_event_listener_except(exc) ==
    IF exc = "CancelledError" THEN "cancelled" ELSE "sleeping"

\* tick sets _poll_notifier: the loop leaves 'await self._poll_notifier.wait()' and
\* starts the coroutines of its safe_gather
StatusPollingLoopNotified ==
    /\ loops.poll = "waiting"
    /\ loops' = [loops EXCEPT !.poll = "starting"]
    /\ UNCHANGED <<in_flight_orders, cancelled_event, events, order_lock,
                   next_order_id, returned, delivered, deliveries, restarts, auth,
                       throttler, waiters>>

\* the gathered _update_order_status comes to its test: with tracked orders it takes
\* the lock (once the lock is free) and fetches them, without it returns at once
StatusPollingLoopUpdateOrderStatus ==
    /\ loops.poll = "starting"
    /\ loops' = [loops EXCEPT !.poll = "gathering"]
    /\ UNCHANGED waiters
    /\ IF DOMAIN in_flight_orders # {}
       THEN update_order_status_begin
       ELSE UNCHANGED <<in_flight_orders, cancelled_event, events, order_lock,
                        next_order_id, returned, delivered, deliveries, restarts, auth, throttler>>

\* the safe_gather of the iteration ends: it returns when every coroutine has
\* returned, or raises the first exception of one of the other updates
\* (_update_balances, _update_exchange_info, ...) while _update_order_status may
\* still wait for its fetches
StatusPollingLoopGathered ==
    /\ loops.poll = "gathering"
    /\ \/ /\ order_lock.kind # "poll"
          /\ loops' = [loops EXCEPT !.poll = "waiting"]
       \/ \E exc \in Raised \ {"CancelledError"} :
             loops' = [loops EXCEPT !.poll = status_polling_loop_except(exc)]
    /\ UNCHANGED <<in_flight_orders, cancelled_event, events, order_lock,
                   next_order_id, returned, delivered, deliveries, restarts, auth,
                       throttler, waiters>>

\* the sleep of the except branch ends and the loop starts its next iteration
StatusPollingLoopSlept ==
    /\ loops.poll = "sleeping"
    /\ loops' = [loops EXCEPT !.poll = "waiting"]
    /\ UNCHANGED <<in_flight_orders, cancelled_event, events, order_lock,
                   next_order_id, returned, delivered, deliveries, restarts, auth,
                       throttler, waiters>>

\* the listener reads an 'orders' event from the queue and handles it
UserStreamListenerOrdersEvent ==
    /\ loops.listener = "getting"
    /\ UserStreamOrdersEvent

\* user_stream.get() raises in _iter_user_event_queue
UserStreamGetRaised ==
    /\ loops.listener = "getting"
    /\ \E exc \in Raised \ {"CancelledError"} :
          loops' = [loops EXCEPT !.listener = iter_user_event_queue_except(exc)]
    /\ UNCHANGED <<in_flight_orders, cancelled_event, events, order_lock,
                   next_order_id, returned, delivered, deliveries, restarts, auth,
                       throttler, waiters>>

\* the listener reads an event whose handling raises before it changes anything
\* (no 'c' in an 'orders' event's data, no 'a' in a 'balances' event's data, ...)
UserStreamListenerMalformedEvent ==
    /\ loops.listener = "getting"
    /\ \E exc \in Raised \ {"CancelledError"} :
          loops' = [loops EXCEPT !.listener = user_stream_event_listener_except(exc)]
    /\ UNCHANGED <<in_flight_orders, cancelled_event, events, order_lock,
                   next_order_id, returned, delivered, deliveries, restarts, auth,
                       throttler, waiters>>

\* a sleep of the listener (1.0 s in the generator, 5.0 s in the loop body) ends
UserStreamListenerSlept ==
    /\ loops.listener \in {"retrying", "sleeping"}
    /\ loops' = [loops EXCEPT !.listener = "getting"]
    /\ UNCHANGED <<in_flight_orders, cancelled_event, events, order_lock,
                   next_order_id, returned, delivered, deliveries, restarts, auth,
                       throttler, waiters>>

\* stop_network cancels both tasks: CancelledError is raised at the await each one
\* stands at; a gather that is cancelled cancels its _update_order_status, whose
\* 'async with' releases the lock
StopNetwork ==
    /\ loops.poll \notin Over
    /\ loops.listener \notin Over
    /\ loops' = [poll |-> status_polling_loop_except("CancelledError"),
                 listener |-> IF loops.listener = "retrying"
                              THEN iter_user_event_queue_except("CancelledError")
                              ELSE user_stream_event_listener_except("CancelledError")]
    /\ order_lock' = IF loops.poll = "gathering" /\ order_lock.kind = "poll"
                     THEN Unlocked ELSE order_lock
    /\ UNCHANGED <<in_flight_orders, cancelled_event, events,
                   next_order_id, returned, delivered, deliveries, restarts, auth,
                       throttler, waiters>>

\* ------------------------------------------------ snapshot and recovery
\* InFlightOrderBase.to_json: the serializable order record with all attributes
to_json(o) ==
    [exchange_order_id |-> o.exchange_order_id,
     trade_type |-> o.trade_type,
     amount |-> o.amount,
     executed_amount_base |-> o.executed_amount_base,
     executed_amount_quote |-> o.executed_amount_quote,
     fee_paid |-> o.fee_paid,
     last_state |-> o.last_state,
     fill_id_set |-> o.fill_id_set]

\* IdexInFlightOrder.from_json: a new order object from the fields it reads
from_json(data) ==
    [NewOrder(data.exchange_order_id, data.trade_type, data.amount) EXCEPT
        !.executed_amount_base = data.executed_amount_base,
        !.executed_amount_quote = data.executed_amount_quote,
        !.fee_paid = data.fee_paid,
        !.last_state = data.last_state]

tracking_states(orders) ==
    [c \in {d \in DOMAIN orders : ~is_done(orders[d])} |-> to_json(orders[c])]

restore_tracking_states(orders, saved) ==
    [c \in DOMAIN orders \cup DOMAIN saved |->
        IF c \in DOMAIN saved THEN from_json(saved[c]) ELSE orders[c]]

\* the process restarts: the host persisted tracking_states after the latest
\* change, a new connector is constructed (empty store, free lock, new order
\* objects) and the host calls restore_tracking_states with the saved states
RestoreTrackingStates ==
    /\ restarts < MaxRestarts
    /\ restarts' = restarts + 1
    /\ in_flight_orders' =
          restore_tracking_states(<< >>, tracking_states(in_flight_orders))
    /\ cancelled_event' = [c \in Ids |-> FALSE]
    /\ order_lock' = Unlocked
    /\ returned' = NoResult
    /\ UNCHANGED <<events, next_order_id, delivered, deliveries, loops, auth, throttler, waiters>>

\* ------------------------------------------------------- specifications
\* one session of the connector
Next ==
    \/ CreateOrderInvalid
    \/ CreateOrderBegin
    \/ CreateOrderFinish
    \/ ExecuteCancelUntracked
    \/ ExecuteCancelBegin
    \/ ExecuteCancelFinish
    \/ CancelAllBegin
    \/ CancelAllFinish
    \/ UpdateOrderStatusBegin
    \/ UpdateOrderStatusFinish
    \/ UserStreamOrdersEvent

Spec == Init /\ [][Next]_vars

\* sessions separated by restarts that recover the saved tracking states
NextRestore ==
    \/ CreateOrderBegin
    \/ CreateOrderFinish
    \/ UpdateOrderStatusBegin
    \/ UpdateOrderStatusFinish
    \/ UserStreamOrdersEvent
    \/ RestoreTrackingStates

SpecRestore == Init /\ [][NextRestore]_vars

\* orders created and cancelled one by one, with status events in between
NextCancel ==
    \/ CreateOrderInvalid
    \/ CreateOrderBegin
    \/ CreateOrderFinish
    \/ ExecuteCancelUntracked
    \/ ExecuteCancelBegin
    \/ ExecuteCancelFinish
    \/ UserStreamOrderStatusEvent

SpecCancel == Init /\ [][NextCancel]_vars

\* one order that an earlier _create_order run left tracked and open, reported by
\* the venue through status polls and push events
InitReports ==
    /\ \E inp \in OrderInputs :
        /\ in_flight_orders = [c \in {1} |-> NewOrder(ExchangeId(c), inp.trade_type, inp.amount)]
        /\ events =
              [c \in Ids |->
                  IF c = 1
                  THEN [NoEvents EXCEPT
                          !.BuyOrderCreated = IF inp.trade_type = "BUY" THEN 1 ELSE 0,
                          !.SellOrderCreated = IF inp.trade_type = "SELL" THEN 1 ELSE 0]
                  ELSE NoEvents]
    /\ cancelled_event = [c \in Ids |-> FALSE]
    /\ order_lock = Unlocked
    /\ next_order_id = 1
    /\ returned = NoResult
    /\ delivered = [c \in Ids |-> [f \in FillIds |-> 0]]
    /\ deliveries = 0
    /\ restarts = 0
    /\ loops = Started
    /\ auth = IdexAuth(WalletPrivateKey, "matic")
    /\ throttler = AsyncThrottler(RATE_LIMITS)
    /\ waiters = << >>

NextReports ==
    \/ UpdateOrderStatusBegin
    \/ UpdateOrderStatusFinish
    \/ UserStreamOrdersEvent

SpecReports == InitReports /\ [][NextReports]_vars

\* one order of a whole requested quantity that an earlier session left partly
\* executed, one unit of 10^-QuantityDecimals below the relative tolerance of its
\* requested quantity: the process restarted, restore_tracking_states has read the
\* saved state, and the venue reports the order through status polls and push events
InitTolerance ==
    /\ \E n \in 1 .. MaxWholeAmount :
        LET amount == n * Power(10, QuantityDecimals)
            executed == amount - (amount \div RelTolDen) - 1
            saved == [c \in {1} |->
                        to_json([NewOrder(ExchangeId(c), "BUY", amount) EXCEPT
                                    !.executed_amount_base = executed,
                                    !.executed_amount_quote = executed,
                                    !.fee_paid = 1,
                                    !.last_state = "partiallyFilled"])]
        IN in_flight_orders = restore_tracking_states(<< >>, saved)
    /\ events = [c \in Ids |->
                    IF c = 1 THEN [NoEvents EXCEPT !.BuyOrderCreated = 1] ELSE NoEvents]
    /\ cancelled_event = [c \in Ids |-> FALSE]
    /\ order_lock = Unlocked
    /\ next_order_id = 1
    /\ returned = NoResult
    /\ delivered = [c \in Ids |-> [f \in FillIds |-> 0]]
    /\ deliveries = 0
    /\ restarts = 1
    /\ loops = Started
    /\ auth = IdexAuth(WalletPrivateKey, "matic")
    /\ throttler = AsyncThrottler(RATE_LIMITS)
    /\ waiters = << >>

SpecTolerance == InitTolerance /\ [][NextReports]_vars

\* one order whose submission is outstanding (_create_order waits for post_order),
\* with push events about it before and after the venue's answer
InitStrays ==
    /\ in_flight_orders = << >>
    /\ cancelled_event = [c \in Ids |-> FALSE]
    /\ events = [c \in Ids |-> NoEvents]
    /\ \E inp \in OrderInputs :
          order_lock = [kind |-> "create", id |-> 1,
                        trade_type |-> inp.trade_type, amount |-> inp.amount]
    /\ next_order_id = 1
    /\ returned = NoResult
    /\ delivered = [c \in Ids |-> [f \in FillIds |-> 0]]
    /\ deliveries = 0
    /\ restarts = 0
    /\ loops = Started
    /\ auth = IdexAuth(WalletPrivateKey, "matic")
    /\ throttler = AsyncThrottler(RATE_LIMITS)
    /\ waiters = << >>

NextStrays ==
    \/ CreateOrderFinish
    \/ UserStreamOrdersEvent

SpecStrays == InitStrays /\ [][NextStrays]_vars

\* cancel_all over MaxBatch orders that earlier _create_order runs left tracked
\* and open, with status events before, during and after it
InitBatch ==
    /\ LET inputs == [c \in 1 .. MaxBatch |->
                         IF c % 2 = 1 THEN [trade_type |-> "BUY", amount |-> 3]
                                      ELSE [trade_type |-> "SELL", amount |-> 2]]
       IN
        /\ in_flight_orders =
              [c \in 1 .. MaxBatch |->
                  NewOrder(ExchangeId(c), inputs[c].trade_type, inputs[c].amount)]
        /\ events =
              [c \in Ids |->
                  IF c \in 1 .. MaxBatch
                  THEN [NoEvents EXCEPT
                          !.BuyOrderCreated = IF inputs[c].trade_type = "BUY" THEN 1 ELSE 0,
                          !.SellOrderCreated = IF inputs[c].trade_type = "SELL" THEN 1 ELSE 0]
                  ELSE NoEvents]
    /\ cancelled_event = [c \in Ids |-> FALSE]
    /\ order_lock = Unlocked
    /\ next_order_id = MaxBatch
    /\ returned = NoResult
    /\ delivered = [c \in Ids |-> [f \in FillIds |-> 0]]
    /\ deliveries = 0
    /\ restarts = 0
    /\ loops = Started
    /\ auth = IdexAuth(WalletPrivateKey, "matic")
    /\ throttler = AsyncThrottler(RATE_LIMITS)
    /\ waiters = << >>

NextBatch ==
    \/ CancelAllBegin
    \/ CancelAllFinish
    \/ UserStreamOrderStatusEvent

SpecBatch == InitBatch /\ [][NextBatch]_vars

\* one status poll over two orders, a BUY and a SELL, that earlier _create_order runs
\* left tracked and open, after the events read so far
InitPoll ==
    /\ LET inputs == [c \in {1, 2} |->
                         IF c % 2 = 1 THEN [trade_type |-> "BUY", amount |-> 3]
                                      ELSE [trade_type |-> "SELL", amount |-> 2]]
       IN
        /\ in_flight_orders =
              [c \in {1, 2} |->
                  NewOrder(ExchangeId(c), inputs[c].trade_type, inputs[c].amount)]
        /\ events =
              [c \in Ids |->
                  IF c \in {1, 2}
                  THEN [NoEvents EXCEPT
                          !.BuyOrderCreated = IF inputs[c].trade_type = "BUY" THEN 1 ELSE 0,
                          !.SellOrderCreated = IF inputs[c].trade_type = "SELL" THEN 1 ELSE 0]
                  ELSE NoEvents]
    /\ cancelled_event = [c \in Ids |-> FALSE]
    /\ order_lock = Unlocked
    /\ next_order_id = 2
    /\ returned = NoResult
    /\ delivered = [c \in Ids |-> [f \in FillIds |-> 0]]
    /\ deliveries = MaxDeliveries - 1
    /\ restarts = 0
    /\ loops = Started
    /\ auth = IdexAuth(WalletPrivateKey, "matic")
    /\ throttler = AsyncThrottler(RATE_LIMITS)
    /\ waiters = << >>

NextPoll ==
    \/ UpdateOrderStatusBegin
    \/ UpdateOrderStatusFinish

SpecPoll == InitPoll /\ [][NextPoll]_vars

\* both loops running over one tracked order, after the events read so far
InitLoops ==
    /\ \E inp \in OrderInputs :
        /\ in_flight_orders = [c \in {1} |-> NewOrder(ExchangeId(c), inp.trade_type, inp.amount)]
        /\ events =
              [c \in Ids |->
                  IF c = 1
                  THEN [NoEvents EXCEPT
                          !.BuyOrderCreated = IF inp.trade_type = "BUY" THEN 1 ELSE 0,
                          !.SellOrderCreated = IF inp.trade_type = "SELL" THEN 1 ELSE 0]
                  ELSE NoEvents]
    /\ cancelled_event = [c \in Ids |-> FALSE]
    /\ order_lock = Unlocked
    /\ next_order_id = 1
    /\ returned = NoResult
    /\ delivered = [c \in Ids |-> [f \in FillIds |-> 0]]
    /\ deliveries = MaxDeliveries - 1
    /\ restarts = 0
    /\ loops = Started
    /\ auth = IdexAuth(WalletPrivateKey, "matic")
    /\ throttler = AsyncThrottler(RATE_LIMITS)
    /\ waiters = << >>

NextLoops ==
    \/ StatusPollingLoopNotified
    \/ StatusPollingLoopUpdateOrderStatus
    \/ UpdateOrderStatusFinish
    \/ StatusPollingLoopGathered
    \/ StatusPollingLoopSlept
    \/ UserStreamListenerOrdersEvent
    \/ UserStreamGetRaised
    \/ UserStreamListenerMalformedEvent
    \/ UserStreamListenerSlept
    \/ StopNetwork

SpecLoops == InitLoops /\ [][NextLoops]_vars

\* the signed calls of an IdexAuth constructed for any of the domains
InitAuth ==
    /\ in_flight_orders = << >>
    /\ cancelled_event = [c \in Ids |-> FALSE]
    /\ events = [c \in Ids |-> NoEvents]
    /\ order_lock = Unlocked
    /\ next_order_id = 0
    /\ returned = NoResult
    /\ delivered = [c \in Ids |-> [f \in FillIds |-> 0]]
    /\ deliveries = 0
    /\ restarts = 0
    /\ loops = Started
    /\ \E domain \in Domains : auth = IdexAuth(WalletPrivateKey, domain)
    /\ throttler = AsyncThrottler(RATE_LIMITS)
    /\ waiters = << >>

NextAuth ==
    \/ GetOrder
    \/ GenerateAuthDictWithoutNonce
    \/ PostOrder
    \/ DeleteOrder
    \/ SetDomain

SpecAuth == InitAuth /\ [][NextAuth]_vars

\* ------------------------------------------------------------ _order_lock
\* the operations that run inside 'async with self._order_lock'
LockedOperations == {"create", "cancel", "cancel_all", "poll"}

Count(seq, x) == Cardinality({i \in 1 .. Len(seq) : seq[i] = x})

\* an operation reaches 'async with self._order_lock' and joins the waiters of the
\* lock (asyncio.Lock lets them in first come, first served); _update_order_status
\* has passed its test of the tick and of the store before
OrderLockWait ==
    /\ Len(waiters) < MaxWaiters
    /\ \E op \in LockedOperations :
        /\ op = "create" => next_order_id + Count(waiters, "create") < MaxOrders
        /\ op = "poll" =>
              /\ DOMAIN in_flight_orders # {}
              /\ deliveries + Count(waiters, "poll")
                    + (IF order_lock.kind = "poll" THEN 1 ELSE 0) < MaxDeliveries
        /\ waiters' = Append(waiters, op)
    /\ UNCHANGED <<in_flight_orders, cancelled_event, events, order_lock, next_order_id,
                   returned, delivered, deliveries, restarts, loops, auth, throttler>>

\* the lock is free: the first waiter acquires it and runs up to its venue call
\* (_execute_cancel for an untracked id up to its raise, which releases the lock)
OrderLockAcquired ==
    /\ waiters # << >>
    /\ waiters' = Tail(waiters)
    /\ CASE Head(waiters) = "create" -> create_order_begin
         [] Head(waiters) = "cancel" -> execute_cancel_begin \/ execute_cancel_untracked
         [] Head(waiters) = "cancel_all" -> cancel_all_begin
         [] Head(waiters) = "poll" -> update_order_status_locked /\ UNCHANGED loops

\* an exchange configured without a wallet private key, with one order that an
\* earlier session left tracked: submissions, cancellations and cancel_all
InitUnsigned ==
    /\ \E inp \in OrderInputs :
        LET saved == [c \in {MaxBatch} |->
                        to_json(NewOrder(ExchangeId(c), inp.trade_type, inp.amount))]
        IN in_flight_orders = restore_tracking_states(<< >>, saved)
    /\ events = [c \in Ids |-> NoEvents]
    /\ cancelled_event = [c \in Ids |-> FALSE]
    /\ order_lock = Unlocked
    /\ next_order_id = 0
    /\ returned = NoResult
    /\ delivered = [c \in Ids |-> [f \in FillIds |-> 0]]
    /\ deliveries = 0
    /\ restarts = 1
    /\ loops = Started
    /\ auth = IdexAuth("", "matic")
    /\ throttler = AsyncThrottler(RATE_LIMITS)
    /\ waiters = << >>

NextUnsigned ==
    \/ CreateOrderBegin
    \/ CreateOrderFinish
    \/ ExecuteCancelBegin
    \/ ExecuteCancelFinish
    \/ CancelAllBegin
    \/ CancelAllFinish
    \/ PostOrder
    \/ DeleteOrder

SpecUnsigned == InitUnsigned /\ [][NextUnsigned]_vars

\* concurrent callers of the throttled methods, from the construction of the
\* throttler on; time passes, and a waiting caller that can be let in is let in
InitThrottler == Init

NextThrottler ==
    \/ ThrottledCall
    \/ ThrottledCallStarts
    \/ ThrottlerTick

SpecThrottler ==
    /\ InitThrottler
    /\ [][NextThrottler]_vars
    /\ WF_vars(ThrottlerTick)
    /\ \A limit_id \in DOMAIN RATE_LIMITS : WF_vars(Starts(limit_id))

\* submissions, cancellations, cancel_all and status polls that queue for
\* _order_lock, after the events read and the orders submitted so far (none of
\* them tracked any more); every venue call returns or fails, and a waiter that
\* can be let in is let in
InitLock ==
    /\ in_flight_orders = << >>
    /\ cancelled_event = [c \in Ids |-> FALSE]
    /\ events = [c \in Ids |-> NoEvents]
    /\ order_lock = Unlocked
    /\ next_order_id = MaxOrders - 1
    /\ returned = NoResult
    /\ delivered = [c \in Ids |-> [f \in FillIds |-> 0]]
    /\ deliveries = MaxDeliveries - 1
    /\ restarts = 0
    /\ loops = Started
    /\ auth = IdexAuth(WalletPrivateKey, "matic")
    /\ throttler = AsyncThrottler(RATE_LIMITS)
    /\ waiters = << >>

NextLock ==
    \/ OrderLockWait
    \/ OrderLockAcquired
    \/ CreateOrderFinish
    \/ ExecuteCancelFinish
    \/ CancelAllFinish
    \/ UpdateOrderStatusFinish

SpecLock ==
    /\ InitLock
    /\ [][NextLock]_vars
    /\ WF_vars(OrderLockAcquired)
    /\ WF_vars(CreateOrderFinish)
    /\ WF_vars(ExecuteCancelFinish)
    /\ WF_vars(CancelAllFinish)
    /\ WF_vars(UpdateOrderStatusFinish)

\* ================================================================ claims
FillQuantities == [f \in FillIds |-> FillQuantity(f)]
FillQuotes == [f \in FillIds |-> FillPrice(f) * FillQuantity(f)]
FillFees == [f \in FillIds |-> FillFee(f)]

\* the executed totals of order o are those of the fill ids in S, each counted once
TotalsAre(o, S) ==
    /\ o.executed_amount_base = SumOver(FillQuantities, S)
    /\ o.executed_amount_quote = SumOver(FillQuotes, S)
    /\ o.fee_paid = SumOver(FillFees, S)

\* Within one session no fill id is counted twice: every OrderFilled event was
\* triggered at most once per fill id and a tracked order's totals are those of
\* its fill_id_set.
AppliedAtMostOnce ==
    \A c \in Ids :
        /\ \A f \in FillIds : events[c].OrderFilled[f] <= 1
        /\ c \in DOMAIN in_flight_orders =>
              /\ TotalsAre(in_flight_orders[c], in_flight_orders[c].fill_id_set)
              /\ \A f \in in_flight_orders[c].fill_id_set : events[c].OrderFilled[f] = 1

\* C1: a fill id delivered more than once for a tracked order (in one message or in
\* several, by poll or push) has raised the order's executed base, quote and fee
\* totals exactly once and has triggered exactly one OrderFilled event.
C1_SameFillCountsExactlyOnce ==
    \A c \in Ids : \A f \in FillIds :
        delivered[c][f] >= 2 =>
            /\ events[c].OrderFilled[f] = 1
            /\ c \in DOMAIN in_flight_orders =>
                  /\ f \in in_flight_orders[c].fill_id_set
                  /\ TotalsAre(in_flight_orders[c], in_flight_orders[c].fill_id_set)

\* C2: after _process_fill_message every fill entry a message carried for a tracked
\* order is applied (in the applied set, its OrderFilled event triggered), also an
\* entry listed behind an already-applied one, and the completion check has run on
\* the resulting totals: no tracked order is left with its amount executed.
C2_EveryNewEntryApplied ==
    \A c \in Ids :
        /\ \A f \in FillIds : delivered[c][f] >= 1 => events[c].OrderFilled[f] >= 1
        /\ c \in DOMAIN in_flight_orders =>
              /\ \A f \in FillIds :
                    delivered[c][f] >= 1 => f \in in_flight_orders[c].fill_id_set
              /\ ~is_filled_amount(in_flight_orders[c])

\* the venue's cancel call reported 'not found': an empty response, or an error
\* whose text contains 'order not found'
ReportsNotFound(resp) ==
    \/ resp.kind = "empty"
    \/ resp.kind = "http_error" /\ resp.body = "order not found"

\* C3: a run of _execute_cancel whose venue call reports 'not found' removes the
\* record from tracking, triggers one OrderCancelled event and returns the client
\* order id to the caller without raising.
C3_CancelNotFoundIsSuccess ==
    [][(order_lock.kind = "cancel" /\ returned'.op = "cancel"
           /\ ReportsNotFound(returned'.response))
       => /\ returned'.outcome = "returned"
          /\ order_lock.id \notin DOMAIN in_flight_orders'
          /\ events'[order_lock.id].OrderCancelled = events[order_lock.id].OrderCancelled + 1
      ]_vars

C3_Witness ==
    /\ returned.op = "cancel"
    /\ ReportsNotFound(returned.response)
    /\ returned.outcome = "returned"
    /\ events[returned.id].OrderCancelled = 1

\* the venue's cancel call named an exchange order id other than the tracked one
NamesOtherOrder(r) ==
    /\ r.op = "cancel"
    /\ r.response.kind = "ids"
    /\ r.exchange_order_id # NoId
    /\ r.response.orderId # NoId
    /\ r.response.orderId # r.exchange_order_id

Reported(r, success) ==
    {r.results[i][1] : i \in {j \in 1 .. Len(r.results) : r.results[j][2] = success}}

\* C5: cancel_all returns exactly one (client_id, success) result for every order
\* that was tracked and not done when it took its snapshot: no id missing, none
\* twice, none from outside, for every mix of successes, errors and timeouts.
C5_CancelAllComplete ==
    returned.op = "cancel_all" =>
        /\ Len(returned.results) = Cardinality(returned.scope)
        /\ {returned.results[i][1] : i \in 1 .. Len(returned.results)} = returned.scope

C5_Witness ==
    /\ returned.op = "cancel_all"
    /\ Cardinality(returned.scope) >= 2
    /\ Reported(returned, TRUE) # {}
    /\ Reported(returned, FALSE) # {}

\* C6: when every cancel call that completed before the deadline returned, cancel_all
\* reports exactly the orders whose call did not complete as failed and the others
\* as successful.
C6_OnlyLateCallsFail ==
    (returned.op = "cancel_all" /\ returned.errored = {}) =>
        /\ Reported(returned, FALSE) = returned.late
        /\ Reported(returned, TRUE) = returned.scope \ returned.late

\* C7: when cancel_all has returned, none of the orders of its snapshot is tracked.
C7_CancelAllStopsTrackingAll ==
    returned.op = "cancel_all" => returned.scope \cap DOMAIN in_flight_orders = {}

\* C8: for every client order id at most one terminal event (OrderCancelled,
\* OrderFailure, BuyOrderCompleted, SellOrderCompleted) is ever triggered.
TerminalEvents(c) ==
    events[c].OrderCancelled + events[c].OrderFailure
        + events[c].BuyOrderCompleted + events[c].SellOrderCompleted

C8_OneTerminalEvent == \A c \in Ids : TerminalEvents(c) <= 1

\* C9: after every reconciler step no record in the store has a terminal state
\* (filled, canceled, rejected).
C9_NoTerminalRecordTracked ==
    \A c \in DOMAIN in_flight_orders : ~is_done(in_flight_orders[c])

\* C10: a fill id applied before the snapshot is not applied again to the restored
\* order: over all sessions each fill id triggered at most one OrderFilled event and
\* a tracked order's totals count every applied fill once.
C10_RestoredFillsNotRecounted ==
    \A c \in DOMAIN in_flight_orders :
        /\ \A f \in FillIds : events[c].OrderFilled[f] <= 1
        /\ TotalsAre(in_flight_orders[c], {f \in FillIds : events[c].OrderFilled[f] >= 1})

\* the completed event of the side of order o
CompletedTag(o) == IF o.trade_type = "BUY" THEN "BuyOrderCompleted" ELSE "SellOrderCompleted"

\* C11: a step that applies fills to a tracked order and brings its executed base
\* quantity to the requested quantity (within tolerance) or above removes the record
\* and triggers exactly one completed event of the order's side; a step that
\* triggers a completed event triggers one, of the order's side, and removes the
\* record.
C11_ReachingAmountCompletes ==
    [][\A c \in DOMAIN in_flight_orders :
          LET o == in_flight_orders[c]
              completed == [tag \in {"BuyOrderCompleted", "SellOrderCompleted"} |->
                               events'[c][tag] - events[c][tag]]
          IN /\ (c \in DOMAIN in_flight_orders'
                   /\ in_flight_orders'[c].executed_amount_base > o.executed_amount_base)
                 => ~is_filled_amount(in_flight_orders'[c])
             /\ completed["BuyOrderCompleted"] + completed["SellOrderCompleted"] \in {0, 1}
             /\ completed["BuyOrderCompleted"] + completed["SellOrderCompleted"] = 1
                 => /\ completed[CompletedTag(o)] = 1
                    /\ c \notin DOMAIN in_flight_orders'
      ]_vars

\* C13: over every step (poll result, push event or any other handler) the executed
\* base quantity of an order that stays tracked does not decrease.
C13_ExecutedNeverDecreases ==
    [][\A c \in DOMAIN in_flight_orders \cap DOMAIN in_flight_orders' :
          in_flight_orders'[c].executed_amount_base >= in_flight_orders[c].executed_amount_base
      ]_vars

C13_Witness ==
    \E c \in DOMAIN in_flight_orders :
        /\ in_flight_orders[c].executed_amount_base > 0
        /\ \E f \in FillIds : delivered[c][f] >= 2
        /\ deliveries >= 2

\* order record o has more executed than requested, beyond the tolerance
ExceedsRequested(o) ==
    o.executed_amount_base > o.amount /\ ~IsClose(o.executed_amount_base, o.amount)

\* C14: no order record has an executed base quantity above its requested quantity
\* by more than the tolerance: neither a tracked record nor the record as the fill
\* loop of _process_fill_message leaves it for any message the venue may deliver.
C14_ExecutedWithinRequested ==
    \A c \in DOMAIN in_flight_orders : \A msg \in OrderMsgs(c) :
        ~ExceedsRequested(
            fill_loop(Store(in_flight_orders, events, cancelled_event),
                      c, msg.fills, 1).st.orders[c])

\* what the claims compare of order c after reconciler steps: its executed totals
\* while tracked, the events triggered for it and whether it is still tracked
Outcome(st, c) ==
    [tracked |-> c \in DOMAIN st.orders,
     totals |-> IF c \in DOMAIN st.orders
                THEN <<st.orders[c].executed_amount_base,
                       st.orders[c].executed_amount_quote,
                       st.orders[c].fee_paid>>
                ELSE << >>,
     events |-> st.events[c]]

\* C15: from every state, for a tracked order, the outcome of delivering two venue
\* messages does not depend on their order, delivering a message a second time
\* changes nothing, and delivering the fills of one message in two messages of the
\* same status gives the outcome of the one message (poll and push run the same
\* reconciler step).
C15_DeliveryIndependent ==
    LET st == Store(in_flight_orders, events, cancelled_event)
    IN \A c \in DOMAIN in_flight_orders : \A m1, m2 \in OrderMsgs(c) :
        /\ Outcome(reconcile(reconcile(st, m1), m2), c)
               = Outcome(reconcile(reconcile(st, m2), m1), c)
        /\ Outcome(reconcile(reconcile(st, m1), m1), c) = Outcome(reconcile(st, m1), c)
        /\ (m1.status = m2.status /\ Len(m1.fills) + Len(m2.fills) <= MaxMsgFills
               /\ m1.fills # << >> /\ m2.fills # << >>)
            => Outcome(reconcile(reconcile(st, m1), m2), c)
                  = Outcome(reconcile(st, [m1 EXCEPT !.fills = m1.fills \o m2.fills]), c)

\* C16: a tracked order whose state is terminal (filled, canceled, rejected) keeps
\* that state over every step as long as it is tracked.
C16_TerminalStateStays ==
    [][\A c \in DOMAIN in_flight_orders \cap DOMAIN in_flight_orders' :
          is_done(in_flight_orders[c])
              => in_flight_orders'[c].last_state = in_flight_orders[c].last_state
      ]_vars

\* C17: every record in the store carries the exchange order id the venue returned
\* for its submission; while the submission call of a client order id is
\* outstanding, and after the call failed, the store holds no record for that id.
C17_TrackedOnlyWithExchangeId ==
    /\ \A c \in DOMAIN in_flight_orders : in_flight_orders[c].exchange_order_id # NoId
    /\ order_lock.kind = "create" => order_lock.id \notin DOMAIN in_flight_orders
    /\ \A c \in Ids :
          (events[c].OrderFailure >= 1
             /\ events[c].BuyOrderCreated + events[c].SellOrderCreated = 0)
          => c \notin DOMAIN in_flight_orders

\* the events of client order id c that a _create_order run triggers
CreateEvents(ev, c) ==
    [created |-> ev[c].BuyOrderCreated + ev[c].SellOrderCreated, failure |-> ev[c].OrderFailure]

\* C18: a run of _create_order that ends (it is not cancelled) has triggered exactly
\* one event for its client order id, the created event of the order's side or
\* OrderFailure, and hands no exception to its caller; when the event is
\* OrderFailure no record for the id is tracked.
C18_CreateEndsWithOneEvent ==
    [][returned'.op = "create" =>
          LET c == returned'.id
              before == CreateEvents(events, c)
              after == CreateEvents(events', c)
          IN /\ returned'.outcome # "raised"
             /\ (after.created - before.created) + (after.failure - before.failure) = 1
             /\ after.created >= before.created /\ after.failure >= before.failure
             /\ after.failure > before.failure => c \notin DOMAIN in_flight_orders'
             /\ after.created > before.created =>
                   /\ c \in DOMAIN in_flight_orders'
                   /\ events'[c][IF in_flight_orders'[c].trade_type = "BUY"
                                  THEN "BuyOrderCreated" ELSE "SellOrderCreated"]
                         = events[c][IF in_flight_orders'[c].trade_type = "BUY"
                                     THEN "BuyOrderCreated" ELSE "SellOrderCreated"] + 1
      ]_vars

C18_Witness ==
    /\ returned.op = "create"
    /\ returned.outcome = "none"
    /\ events[returned.id].OrderFailure = 1
    /\ events[returned.id].BuyOrderCreated + events[returned.id].SellOrderCreated = 0
    /\ returned.id \notin DOMAIN in_flight_orders

\* C19: a run of _execute_cancel for a client order id that is not in the store
\* raises to its caller, calls the venue not at all (the lock it took is free again
\* within the step, nothing waits for delete_order), triggers no event and leaves
\* the store and the completion signals as they are.
C19_CancelUntrackedRaises ==
    [][(order_lock = Unlocked /\ returned'.op = "cancel")
       => /\ returned'.id \notin DOMAIN in_flight_orders
          /\ returned'.outcome = "raised"
          /\ returned'.response.kind = "none"
          /\ order_lock' = Unlocked
          /\ events' = events
          /\ in_flight_orders' = in_flight_orders
          /\ cancelled_event' = cancelled_event
      ]_vars

C19_Witness ==
    /\ returned.op = "cancel"
    /\ returned.outcome = "raised"
    /\ returned.response.kind = "none"
    /\ returned.id \notin DOMAIN in_flight_orders
    /\ events[returned.id].OrderCancelled = 0
    /\ DOMAIN in_flight_orders # {}

\* the venue's cancel call named the exchange order id of the tracked order
NamesTrackedOrder(r) ==
    /\ r.op = "cancel"
    /\ r.response.kind = "ids"
    /\ r.response.orderId # NoId
    /\ r.response.orderId = r.exchange_order_id

\* C20: a run of _execute_cancel whose venue call returns the exchange order id of
\* the tracked order ends with the record out of the store, has triggered exactly
\* one OrderCancelled event for the order, has set the order's cancelled_event and
\* returns the client order id.
C20_CancelMatchCompletes ==
    [][(order_lock.kind = "cancel" /\ NamesTrackedOrder(returned'))
       => /\ returned'.outcome = "returned"
          /\ order_lock.id \notin DOMAIN in_flight_orders'
          /\ events'[order_lock.id].OrderCancelled = events[order_lock.id].OrderCancelled + 1
          /\ \A c \in Ids \ {order_lock.id} : events'[c] = events[c]
          /\ cancelled_event'[order_lock.id]
      ]_vars

C20_Witness ==
    /\ NamesTrackedOrder(returned)
    /\ returned.outcome = "returned"
    /\ returned.id \notin DOMAIN in_flight_orders
    /\ events[returned.id].OrderCancelled = 1
    /\ cancelled_event[returned.id]

\* the executed quantity of o is within the relative tolerance of the requested one:
\* |requested - executed| <= max(requested, executed) / RelTolDen
WithinTolerance(o) ==
    Abs(o.amount - o.executed_amount_base)
        <= Max(o.amount, o.executed_amount_base) \div RelTolDen

\* C12: the completion comparison takes a record as filled by tolerance exactly when
\* |requested - executed| <= 1e-8 * max(requested, executed): for every tracked
\* record math.isclose gives that answer (requested 5 and executed 4.99999995 is
\* within, one unit less is not).
C12_FilledWithinRelativeTolerance ==
    \A c \in DOMAIN in_flight_orders :
        IsClose(in_flight_orders[c].executed_amount_base, in_flight_orders[c].amount)
            <=> WithinTolerance(in_flight_orders[c])

\* the venue's cancel call failed for another cause than 'order not found': a
\* remote error with another text, or an exception that is no IOError (signing,
\* serialisation, timeout)
FailsOtherwise(resp) ==
    \/ resp.kind = "http_error" /\ resp.body # "order not found"
    \/ resp.kind = "exception"

\* C21: a run of _execute_cancel for a tracked order whose venue call fails for
\* another cause than 'order not found' raises the error to its caller, leaves the
\* record tracked and triggers no event.
C21_OtherCancelErrorsPropagate ==
    [][(order_lock.kind = "cancel" /\ returned'.op = "cancel"
           /\ FailsOtherwise(returned'.response))
       => /\ returned'.outcome = "raised"
          /\ in_flight_orders' = in_flight_orders
          /\ events' = events
      ]_vars

\* C22: a push 'orders' event leaves every client order id that is not in the store
\* as it is: no record appears for it, no event is triggered for it and its
\* completion signal is not set (a message for such an id changes nothing at all).
C22_UntrackedMessageIsNoOp ==
    [][(deliveries' = deliveries + 1 /\ order_lock' = order_lock)
       => /\ \A c \in Ids \ DOMAIN in_flight_orders :
                /\ c \notin DOMAIN in_flight_orders'
                /\ events'[c] = events[c]
                /\ cancelled_event'[c] = cancelled_event[c]
          /\ DOMAIN in_flight_orders = {}
                => /\ in_flight_orders' = in_flight_orders
                   /\ events' = events
                   /\ cancelled_event' = cancelled_event
      ]_vars

\* 'orders' events about the only client order id handed out have been read while
\* its submission was outstanding and it had no record
C22_Witness ==
    /\ order_lock.kind = "create"
    /\ next_order_id = 1
    /\ deliveries >= 2
    /\ in_flight_orders = << >>
    /\ events[order_lock.id] = NoEvents

\* the venue messages about order c that report status s
ReportsOf(c, s) == {m \in OrderMsgs(c) : m.status = s}

\* C23: _process_order_message, given a message that reports a tracked order as
\* canceled, triggers OrderCancelled once for that order and no other event, sets
\* the order's completion signal and removes its record from the store.
C23_CanceledReportCancels ==
    \A c \in DOMAIN in_flight_orders : \A m \in ReportsOf(c, "canceled") :
        LET r == _process_order_message(
                     Store(in_flight_orders, events, cancelled_event), m)
        IN /\ r.events = trigger_event(events, c, "OrderCancelled")
           /\ r.cancelled_event = [cancelled_event EXCEPT ![c] = TRUE]
           /\ r.orders = stop_tracking_order(in_flight_orders, c)

\* a report of 'canceled' has been applied to the tracked order
C23_Witness ==
    /\ 1 \notin DOMAIN in_flight_orders
    /\ events[1].OrderCancelled = 1
    /\ events[1].OrderFailure = 0
    /\ cancelled_event[1]
    /\ deliveries >= 1

\* C24: _process_order_message, given a message that reports a tracked order as
\* rejected, triggers OrderFailure once for that order and no other event and
\* removes its record from the store.
C24_RejectedReportFails ==
    \A c \in DOMAIN in_flight_orders : \A m \in ReportsOf(c, "rejected") :
        LET r == _process_order_message(
                     Store(in_flight_orders, events, cancelled_event), m)
        IN /\ r.events = trigger_event(events, c, "OrderFailure")
           /\ r.cancelled_event = cancelled_event
           /\ r.orders = stop_tracking_order(in_flight_orders, c)

\* the order was accepted and tracked, then a push event reported it as rejected
C24_Witness ==
    /\ 1 \notin DOMAIN in_flight_orders
    /\ events[1].BuyOrderCreated + events[1].SellOrderCreated = 1
    /\ events[1].OrderFailure = 1
    /\ events[1].OrderCancelled = 0
    /\ ~cancelled_event[1]
    /\ order_lock = Unlocked

\* what a poll's loop leaves of order c: its record, its events, its signal
About(st, c) ==
    [order |-> IF c \in DOMAIN st.orders THEN <<st.orders[c]>> ELSE << >>,
     events |-> st.events[c],
     cancelled_event |-> st.cancelled_event[c]]

\* C25: whatever the fetches of a poll that is waiting for them return, the loop of _update_order_status
\* leaves an order whose fetch failed untracked with one more OrderFailure and no
\* other event, and leaves every order whose fetch succeeded as _process_fill_message
\* and _process_order_message leave it when given its fetched response alone.
C25_FailedFetchIsolated ==
    (order_lock.kind = "poll" /\ deliveries < MaxDeliveries) =>
        \A results \in [order_lock.orders ->
                            UNION {GetOrderResults(c) : c \in order_lock.orders}] :
            (\A c \in order_lock.orders : results[c] \in GetOrderResults(c)) =>
                LET st0 == Store(in_flight_orders, events, cancelled_event)
                    st == update_order_status_loop(st0, in_order(order_lock.orders),
                                                   results, 1)
                IN \A c \in order_lock.orders :
                      IF is_exception(results[c])
                      THEN /\ c \notin DOMAIN st.orders
                           /\ st.events[c] = trigger_event(events, c, "OrderFailure")[c]
                           /\ st.cancelled_event[c] = cancelled_event[c]
                      ELSE About(st, c) = About(reconcile(st0, results[c]), c)

\* one poll has dropped order 1, whose fetch failed, and applied the fetched fill
\* and status of order 2
C25_Witness ==
    /\ order_lock = Unlocked
    /\ deliveries = MaxDeliveries
    /\ 1 \notin DOMAIN in_flight_orders
    /\ events[1].OrderFailure = 1
    /\ events[1].OrderFilled = NoEvents.OrderFilled
    /\ 2 \in DOMAIN in_flight_orders
    /\ in_flight_orders[2].fill_id_set = {1}
    /\ in_flight_orders[2].last_state = "partiallyFilled"
    /\ events[2].OrderFilled[1] = 1

\* C26: a step ends _status_polling_loop or _user_stream_event_listener only by
\* cancelling the tasks (stop_network cancels both); an exception raised in an
\* iteration (a failed fetch, a malformed event, a failed queue read) leaves the
\* loop running.
C26_LoopsEndOnlyByCancellation ==
    [][\A l \in {"poll", "listener"} :
          (loops[l] \notin Over /\ loops'[l] \in Over)
              => /\ loops'.poll = "cancelled"
                 /\ loops'.listener = "cancelled"
                 /\ loops.poll \notin Over
                 /\ loops.listener \notin Over
      ]_vars

\* both loops stand in the sleep of their except branch: each has caught an
\* exception of its iteration and goes on
C26_Witness ==
    /\ loops.poll = "sleeping"
    /\ loops.listener = "sleeping"

\* C27: no two requests that an IdexAuth has prepared carry the same nonce.
C27_NoncesNeverReused ==
    \A i, j \in 1 .. Len(auth.requests) :
        i # j => auth.requests[i].nonce # auth.requests[j].nonce

\* text holds the tokens of part, one after the other
has_tokens(text, part) ==
    \E k \in 0 .. Len(text) - Len(part) : SubSeq(text, k + 1, k + Len(part)) = part

\* C28: the digest in the header of every prepared request is the HMAC of exactly
\* the bytes the HTTP session sends: the query string of the url, with the nonce,
\* for GET; the JSON body, with the nonce and the wallet signature, for POST and
\* DELETE.
C28_DigestOverTransmittedBytes ==
    \A i \in 1 .. Len(auth.requests) :
        LET request == auth.requests[i]
            sent == transmitted(request)
        IN /\ request.auth_dict.headers.signature = hmac_sign(auth, sent)
           /\ IF request.http_method = "GET"
              THEN has_tokens(sent.text, Str("nonce") \o Str("=") \o request.nonce)
              ELSE /\ has_tokens(sent.text,
                                 Str("nonce") \o Str("':'") \o request.nonce)
                   /\ has_tokens(sent.text,
                                 Str(",'signature':'") \o wallet_sign(
                                     << <<"uint128", request.nonce[1][2]>> >>))

\* a GET, a POST and a DELETE have been prepared
C28_Witness ==
    /\ Len(auth.requests) = 3
    /\ {auth.requests[i].http_method : i \in 1 .. 3} = {"GET", "POST", "DELETE"}

\* C29: building the order signature tuple again from the arguments of an earlier
\* build, while the stored nonce is the one of that build, gives the tuple of that
\* build (wallet address and the instance's domain never change).
C29_SameInputsSameTuple ==
    \A i \in 1 .. Len(auth.built) :
        auth._nonce = auth.built[i].nonce =>
            build_signature_params_for_order(auth, auth.built[i].args)
                = auth.built[i].signature_parameters

\* the type tags of a signature tuple, by position
TypeTags(signature_parameters) ==
    [i \in 1 .. Len(signature_parameters) |-> signature_parameters[i][1]]

\* the hash version of the claim: 4 for the production domain, 104 for the sandbox
HashVersionOf(domain, value) ==
    /\ domain = "matic" => value = 4
    /\ domain = "sandbox_matic" => value = 104

C31_NoWalletNothingSent ==
    [][wallet_sign_raises(auth)
       => /\ auth'.requests = auth.requests
          /\ returned'.op \in {"post_order", "delete_order"} => returned'.outcome = "raised"
          /\ order_lock.kind \in {"cancel", "cancel_all"} => in_flight_orders' = in_flight_orders
          /\ order_lock.kind = "create" =>
                /\ order_lock.id \notin DOMAIN in_flight_orders'
                /\ events'[order_lock.id].BuyOrderCreated = 0
                /\ events'[order_lock.id].SellOrderCreated = 0
      ]_vars

C31_Witness ==
    /\ wallet_sign_raises(auth)
    /\ auth.last_timestamp > 1
    /\ auth.requests = << >>
    /\ returned.op = "cancel"
    /\ returned.id \in DOMAIN in_flight_orders

\* the venue's quota of each capacity pool, per second
Quota ==
    (HTTP_PUBLIC_ENDPOINTS_LIMIT_ID :> 5) @@ (HTTP_USER_ENDPOINTS_LIMIT_ID :> 10)

TerminalStates == {"filled", "canceled", "rejected"}

\* C33: the snapshot tracking_states holds, under its client order id, the saved
\* form of exactly the tracked records whose state is not filled, canceled or
\* rejected; no record in one of these states appears in it.
C33_SnapshotOfOpenOrders ==
    LET snapshot == tracking_states(in_flight_orders)
    IN /\ DOMAIN snapshot =
             {c \in DOMAIN in_flight_orders :
                 in_flight_orders[c].last_state \notin TerminalStates}
       /\ \A c \in DOMAIN snapshot :
             /\ snapshot[c] = to_json(in_flight_orders[c])
             /\ snapshot[c].last_state \notin TerminalStates

C33_Witness ==
    /\ \E c \in DOMAIN in_flight_orders :
          in_flight_orders[c].last_state \in TerminalStates
    /\ \E c \in DOMAIN in_flight_orders :
          c \in DOMAIN tracking_states(in_flight_orders)

\* C34: the Order Store changes only in a step of the operation that holds
\* _order_lock (the step in which that operation writes its result and releases
\* the lock), also when the change is made for a push event.
C34_MutationsUnderLock ==
    [][in_flight_orders' # in_flight_orders
       => /\ order_lock # Unlocked
          /\ order_lock' = Unlocked
      ]_vars

\* C35: of _create_order, _execute_cancel, cancel_all and _update_order_status at
\* most one is between its venue call and its write to the Order Store: an
\* operation issues its venue call only when none of them is outstanding (so a
\* cancel that queued behind a submission runs after the submission has
\* finished), and while one is outstanding the store is written only by the step
\* that ends it.
C35_OneOperationInFlight ==
    [][/\ (order_lock' # order_lock /\ order_lock' # Unlocked) => order_lock = Unlocked
       /\ (order_lock # Unlocked /\ in_flight_orders' # in_flight_orders)
             => order_lock' = Unlocked
      ]_vars

C35_Witness ==
    /\ order_lock.kind = "create"
    /\ waiters # << >>
    /\ Head(waiters) = "cancel"

\* the first operation waiting for _order_lock is let in
LetIn == waiters # << >> /\ waiters' = Tail(waiters)

\* C38: an operation that has handed back to its caller (by return, raised error
\* or deadline expiry) has released _order_lock; a held lock is released
\* eventually, and so every operation waiting for it is let in eventually (again
\* and again nobody waits, or again and again the first waiter is let in),
\* provided every venue call returns or fails.
C38_LockReleasedAndAcquired ==
    /\ [](returned # NoResult => order_lock = Unlocked)
    /\ (order_lock # Unlocked) ~> (order_lock = Unlocked)
    /\ ([]<>(waiters = << >>) \/ []<><<LetIn>>_vars)

C38_Witness ==
    /\ returned.op = "cancel"
    /\ returned.outcome = "raised"
    /\ returned.response.kind # "none"
    /\ order_lock = Unlocked
    /\ waiters # << >>

\* the nonces an IdexAuth can have generated
Nonces == 1 .. MaxCalls + 1

\* C36: the body of every prepared POST and DELETE request carries the wallet
\* signature of a tuple whose nonce is the nonce of the body's parameters, also
\* when several requests of the one IdexAuth are outstanding.
C36_SignedNonceIsSentNonce ==
    \A i \in 1 .. Len(auth.requests) :
        LET request == auth.requests[i]
            text == request.auth_dict.body
        IN request.http_method \in {"POST", "DELETE"} =>
              \E n \in Nonces :
                  /\ request.nonce = UuidStr(n)
                  /\ has_tokens(text, Str("nonce") \o Str("':'") \o UuidStr(n) \o Str("'"))
                  /\ has_tokens(text, Str(",'signature':'") \o << <<"0xsigned", n>> >>
                                          \o Str("'"))

\* a DELETE and a POST are outstanding after an earlier request
C36_Witness ==
    /\ Len(auth.requests) = 3
    /\ auth.requests[2].http_method = "DELETE"
    /\ auth.requests[3].http_method = "POST"

\* C37: in every step that triggers an OrderCancelled event for an order, that
\* order's cancelled_event is set when the step is over.
C37_CancelledEventSetWithEvent ==
    [][\A c \in Ids :
          events'[c].OrderCancelled > events[c].OrderCancelled => cancelled_event'[c]
      ]_vars

\* the created events (buy or sell variant) triggered for order c so far, and
\* whether a filled, cancelled or completed event was triggered for it
CreatedEvents(ev, c) == ev[c].BuyOrderCreated + ev[c].SellOrderCreated
HasLaterEvents(ev, c) ==
    \/ \E f \in FillIds : ev[c].OrderFilled[f] > 0
    \/ ev[c].OrderCancelled > 0
    \/ ev[c].BuyOrderCompleted + ev[c].SellOrderCompleted > 0

\* C39: for an order submitted in this session the created event is triggered at
\* most once, and exactly once when the venue has answered the submission and for
\* every tracked order; the step that triggers it leaves the record tracked; a
\* filled, cancelled or completed event for the order comes only after it, under
\* every interleaving with the venue's reports about the order.
C39_CreatedOnceAndFirst ==
    /\ [](\A c \in Ids :
            /\ CreatedEvents(events, c) <= 1
            /\ c \in DOMAIN in_flight_orders => CreatedEvents(events, c) = 1
            /\ HasLaterEvents(events, c) => CreatedEvents(events, c) = 1)
    /\ [][\A c \in Ids :
            CreatedEvents(events', c) > CreatedEvents(events, c)
            => /\ c \in DOMAIN in_flight_orders'
               /\ ~HasLaterEvents(events', c)
         ]_vars

C39_Witness ==
    /\ CreatedEvents(events, 1) = 1
    /\ \E f \in FillIds : events[1].OrderFilled[f] = 1
    /\ events[1].OrderCancelled = 1
    /\ deliveries = MaxDeliveries

\* the OrderFilled events triggered for order c so far
FilledEvents(ev, c) == SumOver(ev[c].OrderFilled, FillIds)

\* C40: a tracked record that was created in this session has the executed base,
\* quote and fee totals of the fills in its fill_id_set, each counted once, and as
\* many OrderFilled events were triggered for it as the set has fill ids.
C40_TotalsMatchAppliedFills ==
    \A c \in DOMAIN in_flight_orders :
        CreatedEvents(events, c) = 1 =>
            /\ TotalsAre(in_flight_orders[c], in_flight_orders[c].fill_id_set)
            /\ FilledEvents(events, c) = Cardinality(in_flight_orders[c].fill_id_set)

C40_Witness ==
    \E c \in DOMAIN in_flight_orders :
        /\ CreatedEvents(events, c) = 1
        /\ Cardinality(in_flight_orders[c].fill_id_set) >= 2
        /\ \E f \in in_flight_orders[c].fill_id_set : delivered[c][f] >= 2
        /\ FilledEvents(events, c) = 2

====
